---- MODULE Spec2Model ----
(***************************************************************************)
(* A model of deploymentutils.core: the StateConnection wrapper (command   *)
(* dispatch to a local subprocess or a remote session, the tracked working *)
(* directory, environment exports, virtual-environment activation) and the *)
(* rsync helpers.                                                          *)
(*                                                                         *)
(* Python strings that the code inspects character by character (paths,    *)
(* the output of `pwd`) are sequences of one-character strings.  The value *)
(* None of a path-valued field is the one-element sequence NoPath, which   *)
(* is no path because "None" is not a character.                           *)
(***************************************************************************)
EXTENDS Integers, Sequences, FiniteSets, TLC

------------------------------------------------------------------------------
(* Strings as sequences of characters *)

NoPath == <<"None">>

EmptyStr == <<>>

NL == "\n"

StartsWith(s, pre) ==
    /\ Len(pre) <= Len(s)
    /\ SubSeq(s, 1, Len(pre)) = pre

EndsWith(s, suf) ==
    /\ Len(suf) <= Len(s)
    /\ SubSeq(s, Len(s) - Len(suf) + 1, Len(s)) = suf

\* str.strip(): leading and trailing whitespace removed
RECURSIVE LStrip(_)
LStrip(s) == IF s # <<>> /\ Head(s) \in {NL, " "} THEN LStrip(Tail(s)) ELSE s

RECURSIVE RStrip(_)
RStrip(s) ==
    IF s # <<>> /\ s[Len(s)] \in {NL, " "} THEN RStrip(SubSeq(s, 1, Len(s) - 1)) ELSE s

Strip(s) == RStrip(LStrip(s))

\* index of the last "/" of s, 0 if there is none
RECURSIVE LastSlash(_, _)
LastSlash(s, i) == IF i = 0 THEN 0 ELSE IF s[i] = "/" THEN i ELSE LastSlash(s, i - 1)

\* os.path.split(p)[1]: everything after the last slash
SplitTail(p) == SubSeq(p, LastSlash(p, Len(p)) + 1, Len(p))

\* f"{a}/{b}"
JoinSlash(a, b) == a \o <<"/">> \o b

------------------------------------------------------------------------------
(* The file system of the machine the connection's target runs on *)

Root == <<"/">>

\* the user's home directory, which is also where a remote session starts
Home == <<"/", "h", "a">>

\* the working directory of the Python process running the script
OrigDir == Root

\* the directories that exist
Dirs ==
    { Root,
      Home,
      <<"/", "h", "a", "/", "t">>,
      <<"/", "h", "a", "/", "t", "/", "b">> }

\* a path without its trailing slashes (the root stays)
RECURSIVE NormPath(_)
NormPath(p) ==
    IF Len(p) > 1 /\ p[Len(p)] = "/" THEN NormPath(SubSeq(p, 1, Len(p) - 1)) ELSE p

\* what the shell makes of a word: ~ and $H (the variable holding the home
\* directory) are expanded, a relative path is taken from `from`
ShellExpand(p, from) ==
    IF p = <<>> THEN from
    ELSE IF p[1] = "~" THEN Home \o Tail(p)
    ELSE IF StartsWith(p, <<"$", "H">>) THEN Home \o SubSeq(p, 3, Len(p))
    ELSE IF p[1] = "/" THEN p
    ELSE IF from = Root THEN Root \o p
    ELSE JoinSlash(from, p)

\* `cd p` in a shell whose working directory is `from`: the new working
\* directory; a failing cd leaves it unchanged
ShellCd(p, from) ==
    IF NormPath(ShellExpand(p, from)) \in Dirs THEN NormPath(ShellExpand(p, from)) ELSE from

ShellCdFails(p, from) == NormPath(ShellExpand(p, from)) \notin Dirs

\* os.chdir(p): no expansion of ~ or $, a relative path is taken from the
\* process's working directory
OsChdirDir(p) ==
    IF p[1] = "/" THEN NormPath(p)
    ELSE IF OrigDir = Root THEN NormPath(Root \o p)
    ELSE NormPath(JoinSlash(OrigDir, p))

OsChdirOk(p) == OsChdirDir(p) \in Dirs

------------------------------------------------------------------------------
(* Result objects *)

\* last_result before any command has run
NoResult ==
    [kind |-> "None", exited |-> 0, stdout |-> <<>>, stderr |-> <<>>,
     command_omitted |-> FALSE, exception |-> "none", old_res |-> FALSE]

\* EContainer(exited=e): stdout and stderr are "" unless given
EContainer(e) ==
    [kind |-> "EContainer", exited |-> e, stdout |-> <<>>, stderr |-> <<>>,
     command_omitted |-> FALSE, exception |-> "none", old_res |-> FALSE]

\* EContainer(exited=0, command_omitted=True)
OmittedResult == [EContainer(0) EXCEPT !.command_omitted = TRUE]

\* EContainer(exited=1, exception=ex)
ExceptionResult(ex) == [EContainer(1) EXCEPT !.exception = ex]

\* what a backend hands back for a command that ran
ProcessResult(kind, e, out, err) ==
    [kind |-> kind, exited |-> e, stdout |-> out, stderr |-> err,
     command_omitted |-> FALSE, exception |-> "none", old_res |-> FALSE]

------------------------------------------------------------------------------
(* Composite commands: a list of statements *)

CmdStmt(cmd) == [op |-> "cmd", name |-> cmd, val |-> "", path |-> <<>>]

CdStmt(d) == [op |-> "cd", name |-> "", val |-> "", path |-> d]

ExportStmt(n, v) == [op |-> "export", name |-> n, val |-> v, path |-> <<>>]

SourceStmt(p) == [op |-> "source", name |-> p, val |-> "", path |-> <<>>]

\* for env_var, value in env_variables.items(): full_command_list.insert(0, ...)
RECURSIVE InsertExports(_, _)
InsertExports(env, list) ==
    IF env = <<>> THEN list
    ELSE InsertExports(Tail(env), <<ExportStmt(Head(env)[1], Head(env)[2])>> \o list)

------------------------------------------------------------------------------
(* The shell that executes a composite command *)

\* what the executed process does, chosen by the environment: the exit code
\* of the last statement and what it wrote; auth: the session cannot be
\* opened because the ssh agent holds no key
BackendChoices ==
    { [auth |-> FALSE, code |-> 0, out |-> <<"o", NL>>, err |-> <<>>],
      [auth |-> FALSE, code |-> 2, out |-> <<>>, err |-> <<"E">>],
      [auth |-> TRUE, code |-> 0, out |-> <<>>, err |-> <<>>] }

\* the choice used when no process is started
NoChoice == [auth |-> FALSE, code |-> 0, out |-> <<>>, err |-> <<>>]

\* the working directory after the cd statements of the list
RECURSIVE ShellCwdAfter(_, _)
ShellCwdAfter(list, from) ==
    IF list = <<>> THEN from
    ELSE IF Head(list).op = "cd" THEN ShellCwdAfter(Tail(list), ShellCd(Head(list).path, from))
    ELSE ShellCwdAfter(Tail(list), from)

\* some cd statement of the list fails (and writes a message to stderr)
RECURSIVE ShellCdError(_, _)
ShellCdError(list, from) ==
    IF list = <<>> THEN FALSE
    ELSE IF Head(list).op = "cd"
         THEN \/ ShellCdFails(Head(list).path, from)
              \/ ShellCdError(Tail(list), ShellCd(Head(list).path, from))
    ELSE ShellCdError(Tail(list), from)

\* "; ".join(...) run by a shell started in `from`: the statements run one
\* after the other whatever the earlier ones return, the exit code is the
\* last statement's
ShellExec(kind, list, from, o) ==
    LET last == list[Len(list)]
        cwd == ShellCwdAfter(list, from)
        out == IF last.name = "pwd"
               THEN (IF o.code = 0 THEN cwd \o <<NL>> ELSE <<>>)
               ELSE o.out
        err == (IF ShellCdError(list, from) THEN <<"c">> ELSE <<>>) \o o.err
    IN ProcessResult(kind, o.code, out, err)

------------------------------------------------------------------------------
(* StateConnection: the operations as functions of the object c *)

None == "None"

\* the object after __init__, before the connection test of a remote target
NewConnection(t) ==
    [target |-> t, dir |-> NoPath, cwd |-> NoPath, venv_path |-> None,
     venv_target |-> None, last_result |-> NoResult, last_command |-> <<>>,
     env_variables |-> <<>>]

\* what a call did: the object afterwards, whether the call returned or
\* raised, and what the environment saw of it
Done(c, res, info) ==
    [c |-> c, outcome |-> "return", res |-> res, exc |-> "none", msg |-> "none",
     msg_stderr |-> <<>>, info |-> info]

Raised(c, exc, msg, msg_stderr, info) ==
    [c |-> c, outcome |-> "raise", res |-> NoResult, exc |-> exc, msg |-> msg,
     msg_stderr |-> msg_stderr, info |-> info]

\* backend: "remote" (the session's run), "local" (the subprocess block),
\* "omit" (the omit branch) or "none" (no dispatch); spawned: a process ran;
\* proc: the result the dispatch returned, NoResult if it returned none
DispatchInfo(backend, spawned, composite, proc) ==
    [backend |-> backend, spawned |-> spawned, composite |-> composite, proc |-> proc]

\* self._c.run(full_command_txt, hide=hide, warn=warn) of fabric/invoke: a
\* missing agent key raises PasswordRequiredException; a nonzero exit raises
\* UnexpectedExit unless warn is set
SessionRun(list, warn, o) ==
    IF o.auth THEN [raised |-> "PasswordRequiredException", res |-> NoResult, spawned |-> FALSE]
    ELSE IF o.code # 0 /\ warn = "False"
    THEN [raised |-> "UnexpectedExit", res |-> NoResult, spawned |-> TRUE]
    ELSE [raised |-> "none", res |-> ShellExec("Result", list, Home, o), spawned |-> TRUE]

\* the subprocess block of a local target: os.chdir(self.cwd) if it is set,
\* subprocess.run, os.chdir(orig_dir)
SubprocessRun(cwd, list, o) ==
    IF cwd # NoPath /\ cwd # <<>> /\ ~OsChdirOk(cwd)
    THEN [raised |-> "FileNotFoundError", res |-> NoResult, spawned |-> FALSE]
    ELSE [raised |-> "none", spawned |-> TRUE,
          res |-> ShellExec("CompletedProcess", list,
                            IF cwd # NoPath /\ cwd # <<>> THEN OsChdirDir(cwd) ELSE OrigDir,
                            [o EXCEPT !.auth = FALSE])]

\* a dispatch that leaves target_spec out of account on a remote target
RunTargetCommand_Ungated(c, list, warn, target_spec, o) ==
    IF c.target = "remote"
    THEN [backend |-> "remote"] @@ SessionRun(list, warn, o)
    ELSE IF target_spec \in {"local", "both"}
         THEN [backend |-> "local"] @@ SubprocessRun(c.cwd, list, o)
         ELSE [backend |-> "omit", raised |-> "none", res |-> OmittedResult, spawned |-> FALSE]

RunTargetCommand(c, list, warn, target_spec, o) ==
    IF c.target = "remote"
    THEN IF target_spec \in {"remote", "both"}
         THEN [backend |-> "remote"] @@ SessionRun(list, warn, o)
         ELSE [backend |-> "omit", raised |-> "none", res |-> OmittedResult, spawned |-> FALSE]
    ELSE IF target_spec \in {"local", "both"}
         THEN [backend |-> "local"] @@ SubprocessRun(c.cwd, list, o)
         ELSE [backend |-> "omit", raised |-> "none", res |-> OmittedResult, spawned |-> FALSE]

\* the arguments of run; warn is "smart", "True" or "False"
RunArgs(cmd, use_dir, warn, printonly, target_spec, use_venv) ==
    [cmd |-> cmd, use_dir |-> use_dir, warn |-> warn, printonly |-> printonly,
     target_spec |-> target_spec, use_venv |-> use_venv]

\* a condition that lets a venv of scope remote act on a remote target only
VenvTargetCondition_ByTarget(c, target_spec) ==
    c.venv_target = "both" \/ (c.target = "remote" /\ c.venv_target # None)

VenvTargetCondition(c, target_spec) ==
    c.venv_target = "both" \/ (target_spec # "local" /\ c.venv_target # None)

\* a composite command whose exports are put in front of the source statement
CompositeCommand_SourceLate(c, a) ==
    LET l0 == <<CmdStmt(a.cmd)>>
        l1 == IF a.use_dir /\ c.dir # NoPath /\ c.target = "remote"
              THEN <<CdStmt(c.dir)>> \o l0 ELSE l0
        l2 == IF a.use_venv /\ c.venv_path # None /\ VenvTargetCondition(c, a.target_spec)
              THEN <<SourceStmt(c.venv_path)>> \o l1 ELSE l1
    IN InsertExports(c.env_variables, l2)

CompositeCommand(c, a) ==
    LET l0 == <<CmdStmt(a.cmd)>>
        l1 == IF a.use_dir /\ c.dir # NoPath /\ c.target = "remote"
              THEN <<CdStmt(c.dir)>> \o l0 ELSE l0
        l2 == InsertExports(c.env_variables, l1)
    IN IF a.use_venv /\ c.venv_path # None /\ VenvTargetCondition(c, a.target_spec)
       THEN <<SourceStmt(c.venv_path)>> \o l2 ELSE l2

\* a run that returns the failed result under warn="smart" as under warn=True
RunFinish_SmartReturns(c1, a, warn, list, d) ==
    LET info == DispatchInfo(d.backend, d.spawned, list, d.res)
    IN CASE d.raised = "UnexpectedExit" ->
                IF warn = "True"
                THEN Raised(c1, "ValueError", "command failed", <<>>, info)
                ELSE Done(c1, ExceptionResult("UnexpectedExit"), info)
          [] d.raised = "PasswordRequiredException" ->
                Done(c1, ExceptionResult("PasswordRequiredException"), info)
          [] d.raised = "FileNotFoundError" ->
                Raised(c1, "FileNotFoundError", "chdir", <<>>, info)
          [] OTHER ->
                Done([c1 EXCEPT !.last_result = d.res], d.res, info)

\* a run that keeps the last_result of the run before when the dispatch
\* omits the command
RunFinish_OmitKeeps(c1, a, warn, list, d) ==
    LET info == DispatchInfo(d.backend, d.spawned, list, d.res)
    IN CASE d.raised = "UnexpectedExit" ->
                IF warn = "True"
                THEN Raised(c1, "ValueError", "command failed", <<>>, info)
                ELSE Done(c1, ExceptionResult("UnexpectedExit"), info)
          [] d.raised = "PasswordRequiredException" ->
                Done(c1, ExceptionResult("PasswordRequiredException"), info)
          [] d.raised = "FileNotFoundError" ->
                Raised(c1, "FileNotFoundError", "chdir", <<>>, info)
          [] OTHER ->
                LET c2 == IF d.backend = "omit" THEN c1 ELSE [c1 EXCEPT !.last_result = d.res]
                IN IF a.warn = "smart" /\ d.res.exited # 0
                   THEN Raised(c2, "ValueError", "failed with code", d.res.stderr, info)
                   ELSE Done(c2, d.res, info)

\* a run that turns the session's UnexpectedExit into a ValueError whatever
\* warn is
RunFinish_ExitRaises(c1, a, warn, list, d) ==
    LET info == DispatchInfo(d.backend, d.spawned, list, d.res)
    IN CASE d.raised = "UnexpectedExit" ->
                Raised(c1, "ValueError", "command failed", <<>>, info)
          [] d.raised = "PasswordRequiredException" ->
                Done(c1, ExceptionResult("PasswordRequiredException"), info)
          [] d.raised = "FileNotFoundError" ->
                Raised(c1, "FileNotFoundError", "chdir", <<>>, info)
          [] OTHER ->
                LET c2 == [c1 EXCEPT !.last_result = d.res]
                IN IF a.warn = "smart" /\ d.res.exited # 0
                   THEN Raised(c2, "ValueError", "failed with code", d.res.stderr, info)
                   ELSE Done(c2, d.res, info)

\* a run that handles the failed result of an authentication failure like
\* the result of a command: recorded as last_result, raised under "smart"
RunFinish_AuthRecorded(c1, a, warn, list, d) ==
    LET info == DispatchInfo(d.backend, d.spawned, list, d.res)
    IN CASE d.raised = "UnexpectedExit" ->
                IF warn = "True"
                THEN Raised(c1, "ValueError", "command failed", <<>>, info)
                ELSE Done(c1, ExceptionResult("UnexpectedExit"), info)
          [] d.raised = "PasswordRequiredException" ->
                LET res == ExceptionResult("PasswordRequiredException")
                    c2 == [c1 EXCEPT !.last_result = res]
                IN IF a.warn = "smart"
                   THEN Raised(c2, "ValueError", "failed with code", res.stderr, info)
                   ELSE Done(c2, res, info)
          [] d.raised = "FileNotFoundError" ->
                Raised(c1, "FileNotFoundError", "chdir", <<>>, info)
          [] OTHER ->
                LET c2 == [c1 EXCEPT !.last_result = d.res]
                IN IF a.warn = "smart" /\ d.res.exited # 0
                   THEN Raised(c2, "ValueError", "failed with code", d.res.stderr, info)
                   ELSE Done(c2, d.res, info)

\* what run does with d, the outcome of dispatching the composite command
RunFinish(c1, a, warn, list, d) ==
    LET info == DispatchInfo(d.backend, d.spawned, list, d.res)
    IN CASE d.raised = "UnexpectedExit" ->
                IF warn = "True"
                THEN Raised(c1, "ValueError", "command failed", <<>>, info)
                ELSE Done(c1, ExceptionResult("UnexpectedExit"), info)
          [] d.raised = "PasswordRequiredException" ->
                Done(c1, ExceptionResult("PasswordRequiredException"), info)
          [] d.raised = "FileNotFoundError" ->
                Raised(c1, "FileNotFoundError", "chdir", <<>>, info)
          [] OTHER ->
                LET c2 == [c1 EXCEPT !.last_result = d.res]
                IN IF a.warn = "smart" /\ d.res.exited # 0
                   THEN Raised(c2, "ValueError", "failed with code", d.res.stderr, info)
                   ELSE Done(c2, d.res, info)

\* run once the composite command is built: self.cwd and last_command are
\* set, then the command is printed only or dispatched
RunComposite(c, a, list, o) ==
    LET cwd == IF a.use_dir /\ c.dir # NoPath /\ c.target # "remote" THEN c.dir ELSE NoPath
        c1 == [c EXCEPT !.cwd = cwd, !.last_command = list]
        warn == IF a.warn = "smart" THEN "True" ELSE a.warn
    IN IF a.printonly
       THEN Done(c1, EContainer(0), DispatchInfo("none", FALSE, list, NoResult))
       ELSE RunFinish(c1, a, warn, list, RunTargetCommand(c1, list, warn, a.target_spec, o))

Run(c, a, o) == RunComposite(c, a, CompositeCommand(c, a), o)

\* a set_env that forgets the names set before
SetEnv_Replaces(c, name, value) == [c EXCEPT !.env_variables = <<<<name, value>>>>]

SetEnv(c, name, value) ==
    LET pos == {i \in 1..Len(c.env_variables) : c.env_variables[i][1] = name}
    IN IF pos = {}
       THEN [c EXCEPT !.env_variables = Append(@, <<name, value>>)]
       ELSE LET i == CHOOSE j \in pos : TRUE
            IN [c EXCEPT !.env_variables =
                    SubSeq(@, 1, i - 1) \o <<<<name, value>>>> \o SubSeq(@, i + 1, Len(@))]

ActivateVenv(c, venv_path, venv_target, o) ==
    Run([c EXCEPT !.venv_path = venv_path, !.venv_target = venv_target],
        RunArgs("python", TRUE, "smart", FALSE, "remote", TRUE), o)

DeactivateVenv(c) == [c EXCEPT !.venv_path = None, !.venv_target = None]

\* what check_existence makes of r, the outcome of its run: value is the
\* boolean it returns
ExistenceValue(r) ==
    [r EXCEPT !.info = [value |-> r.outcome = "return" /\ r.res.exited = 0] @@ @]

\* a check_existence that hands its target_spec on to run
CheckExistence_PassesTargetSpec(c, path, target_spec, o) ==
    IF target_spec # "both" /\ target_spec # c.target
    THEN ExistenceValue(Raised(c, "AssertionError", "none", <<>>,
                               DispatchInfo("none", FALSE, <<>>, NoResult)))
    ELSE ExistenceValue(Run(c, RunArgs("test", TRUE, "False", FALSE, target_spec, TRUE), o))

\* check_existence(path, target_spec): run(cmd, warn=False) with run's
\* default target_spec
CheckExistence(c, path, target_spec, o) ==
    IF target_spec # "both" /\ target_spec # c.target
    THEN ExistenceValue(Raised(c, "AssertionError", "none", <<>>,
                               DispatchInfo("none", FALSE, <<>>, NoResult)))
    ELSE ExistenceValue(Run(c, RunArgs("test", TRUE, "False", FALSE, "remote", TRUE), o))

\* what chdir saw: ran = the backends its pwd commands reached, pwd0 = the
\* stripped output of the pwd it joins a relative path to, probed = the
\* probing pwd returned a result, probe_exited = that result's exit code,
\* pwd_txt = its stripped output, printed = chdir printed "Could not change
\* directory"
ChdirInfo(ran, spawned, pwd0, probed, probe_exited, pwd_txt, printed) ==
    [ran |-> ran, spawned |-> spawned, pwd0 |-> pwd0, probed |-> probed,
     probe_exited |-> probe_exited, pwd_txt |-> pwd_txt, printed |-> printed]

PwdArgs(target_spec) == RunArgs("pwd", TRUE, "True", FALSE, target_spec, TRUE)

IsRelative(path) == path[1] \notin {"/", "~", "$"}

\* a comparison that keeps the requested directory when it fails
ChdirCompare_NoRevert(old_path, path, tolerate_error, ran1, spawned1, pwd0, r) ==
    LET ran == ran1 \o <<r.info.backend>>
        spawned == spawned1 \/ r.info.spawned
        pwd_txt == Strip(r.res.stdout)
        back == [r.c EXCEPT !.dir = old_path]
    IN IF r.outcome = "raise"
       THEN Raised(r.c, r.exc, r.msg, r.msg_stderr,
                   ChdirInfo(ran, spawned, pwd0, FALSE, 0, <<>>, FALSE))
       ELSE IF r.res.exited # 0
       THEN Done(back, r.res, ChdirInfo(ran, spawned, pwd0, TRUE, r.res.exited, pwd_txt, TRUE))
       ELSE IF ~EndsWith(pwd_txt, SplitTail(path))
       THEN Done(r.c, [EContainer(1) EXCEPT !.old_res = TRUE],
                 ChdirInfo(ran, spawned, pwd0, TRUE, r.res.exited, pwd_txt,
                           ~tolerate_error /\ ~StartsWith(path, <<"~">>)
                                           /\ ~StartsWith(path, <<"$">>)))
       ELSE Done(r.c, r.res, ChdirInfo(ran, spawned, pwd0, TRUE, r.res.exited, pwd_txt, FALSE))

\* a comparison that takes a mismatch for a success when tolerate_error is
\* set or the path starts with ~ or $
ChdirCompare_Exempting(old_path, path, tolerate_error, ran1, spawned1, pwd0, r) ==
    LET ran == ran1 \o <<r.info.backend>>
        spawned == spawned1 \/ r.info.spawned
        pwd_txt == Strip(r.res.stdout)
        back == [r.c EXCEPT !.dir = old_path]
        exempt == tolerate_error \/ StartsWith(path, <<"~">>) \/ StartsWith(path, <<"$">>)
    IN IF r.outcome = "raise"
       THEN Raised(r.c, r.exc, r.msg, r.msg_stderr,
                   ChdirInfo(ran, spawned, pwd0, FALSE, 0, <<>>, FALSE))
       ELSE IF r.res.exited # 0
       THEN Done(back, r.res, ChdirInfo(ran, spawned, pwd0, TRUE, r.res.exited, pwd_txt, TRUE))
       ELSE IF ~EndsWith(pwd_txt, SplitTail(path)) /\ ~exempt
       THEN Done(back, [EContainer(1) EXCEPT !.old_res = TRUE],
                 ChdirInfo(ran, spawned, pwd0, TRUE, r.res.exited, pwd_txt, TRUE))
       ELSE Done(r.c, r.res, ChdirInfo(ran, spawned, pwd0, TRUE, r.res.exited, pwd_txt, FALSE))

\* a comparison that puts the old directory back when the probing pwd raises
ChdirCompare_RevertsOnRaise(old_path, path, tolerate_error, ran1, spawned1, pwd0, r) ==
    LET ran == ran1 \o <<r.info.backend>>
        spawned == spawned1 \/ r.info.spawned
        pwd_txt == Strip(r.res.stdout)
        back == [r.c EXCEPT !.dir = old_path]
    IN IF r.outcome = "raise"
       THEN Raised(back, r.exc, r.msg, r.msg_stderr,
                   ChdirInfo(ran, spawned, pwd0, FALSE, 0, <<>>, FALSE))
       ELSE IF r.res.exited # 0
       THEN Done(back, r.res, ChdirInfo(ran, spawned, pwd0, TRUE, r.res.exited, pwd_txt, TRUE))
       ELSE IF ~EndsWith(pwd_txt, SplitTail(path))
       THEN Done(back, [EContainer(1) EXCEPT !.old_res = TRUE],
                 ChdirInfo(ran, spawned, pwd0, TRUE, r.res.exited, pwd_txt,
                           ~tolerate_error /\ ~StartsWith(path, <<"~">>)
                                           /\ ~StartsWith(path, <<"$">>)))
       ELSE Done(r.c, r.res, ChdirInfo(ran, spawned, pwd0, TRUE, r.res.exited, pwd_txt, FALSE))

\* a comparison that takes an omitted pwd for a success that changes nothing
ChdirCompare_OmittedSucceeds(old_path, path, tolerate_error, ran1, spawned1, pwd0, r) ==
    LET ran == ran1 \o <<r.info.backend>>
        spawned == spawned1 \/ r.info.spawned
        pwd_txt == Strip(r.res.stdout)
        back == [r.c EXCEPT !.dir = old_path]
    IN IF r.outcome = "raise"
       THEN Raised(r.c, r.exc, r.msg, r.msg_stderr,
                   ChdirInfo(ran, spawned, pwd0, FALSE, 0, <<>>, FALSE))
       ELSE IF r.res.command_omitted
       THEN Done(back, r.res, ChdirInfo(ran, spawned, pwd0, TRUE, r.res.exited, pwd_txt, FALSE))
       ELSE IF r.res.exited # 0
       THEN Done(back, r.res, ChdirInfo(ran, spawned, pwd0, TRUE, r.res.exited, pwd_txt, TRUE))
       ELSE IF ~EndsWith(pwd_txt, SplitTail(path))
       THEN Done(back, [EContainer(1) EXCEPT !.old_res = TRUE],
                 ChdirInfo(ran, spawned, pwd0, TRUE, r.res.exited, pwd_txt,
                           ~tolerate_error /\ ~StartsWith(path, <<"~">>)
                                           /\ ~StartsWith(path, <<"$">>)))
       ELSE Done(r.c, r.res, ChdirInfo(ran, spawned, pwd0, TRUE, r.res.exited, pwd_txt, FALSE))

\* the end of chdir: r is what the probing pwd came back with, old_path the
\* directory tracked before
ChdirCompare(old_path, path, tolerate_error, ran1, spawned1, pwd0, r) ==
    LET ran == ran1 \o <<r.info.backend>>
        spawned == spawned1 \/ r.info.spawned
        pwd_txt == Strip(r.res.stdout)
        back == [r.c EXCEPT !.dir = old_path]
    IN IF r.outcome = "raise"
       THEN Raised(r.c, r.exc, r.msg, r.msg_stderr,
                   ChdirInfo(ran, spawned, pwd0, FALSE, 0, <<>>, FALSE))
       ELSE IF r.res.exited # 0
       THEN Done(back, r.res, ChdirInfo(ran, spawned, pwd0, TRUE, r.res.exited, pwd_txt, TRUE))
       ELSE IF ~EndsWith(pwd_txt, SplitTail(path))
       THEN Done(back, [EContainer(1) EXCEPT !.old_res = TRUE],
                 ChdirInfo(ran, spawned, pwd0, TRUE, r.res.exited, pwd_txt,
                           ~tolerate_error /\ ~StartsWith(path, <<"~">>)
                                           /\ ~StartsWith(path, <<"$">>)))
       ELSE Done(r.c, r.res, ChdirInfo(ran, spawned, pwd0, TRUE, r.res.exited, pwd_txt, FALSE))

\* the second half of chdir: track abs_path, probe with pwd, compare
ChdirProbe(c, path, abs_path, target_spec, tolerate_error, ran1, spawned1, pwd0, o2) ==
    ChdirCompare(c.dir, path, tolerate_error, ran1, spawned1, pwd0,
                 Run([c EXCEPT !.dir = abs_path], PwdArgs(target_spec), o2))

\* a relative chdir that joins the path to the tracked directory, not to the
\* output of pwd
ChdirRelative_JoinsTracked(path, target_spec, tolerate_error, r1, o2) ==
    LET pwd0 == Strip(r1.res.stdout)
        i1 == ChdirInfo(<<r1.info.backend>>, r1.info.spawned, pwd0, FALSE, 0, <<>>, FALSE)
    IN IF r1.outcome = "raise"
       THEN Raised(r1.c, r1.exc, r1.msg, r1.msg_stderr, i1)
       ELSE IF r1.res.exited # 0
       THEN Raised(r1.c, "AssertionError", "pwd_res.exited == 0", <<>>, i1)
       ELSE ChdirProbe(r1.c, path, JoinSlash(r1.c.dir, path), target_spec, tolerate_error,
                       <<r1.info.backend>>, r1.info.spawned, pwd0, o2)

\* chdir with a relative path while a directory is tracked: r1 is what the
\* first pwd came back with
ChdirRelative(path, target_spec, tolerate_error, r1, o2) ==
    LET pwd0 == Strip(r1.res.stdout)
        i1 == ChdirInfo(<<r1.info.backend>>, r1.info.spawned, pwd0, FALSE, 0, <<>>, FALSE)
    IN IF r1.outcome = "raise"
       THEN Raised(r1.c, r1.exc, r1.msg, r1.msg_stderr, i1)
       ELSE IF r1.res.exited # 0
       THEN Raised(r1.c, "AssertionError", "pwd_res.exited == 0", <<>>, i1)
       ELSE ChdirProbe(r1.c, path, JoinSlash(pwd0, path), target_spec, tolerate_error,
                       <<r1.info.backend>>, r1.info.spawned, pwd0, o2)

\* chdir(path, target_spec, tolerate_error) for a path that is not None;
\* o1 and o2 are what the environment does with the two pwd commands
Chdir(c, path, target_spec, tolerate_error, o1, o2) ==
    IF Len(path) = 0
    THEN Raised(c, "AssertionError", "len(path) > 0", <<>>,
                ChdirInfo(<<>>, FALSE, <<>>, FALSE, 0, <<>>, FALSE))
    ELSE IF IsRelative(path)
    THEN IF c.dir = NoPath
         THEN Raised(c, "ValueError", "relative path first", <<>>,
                     ChdirInfo(<<>>, FALSE, <<>>, FALSE, 0, <<>>, FALSE))
         ELSE ChdirRelative(path, target_spec, tolerate_error,
                            Run(c, PwdArgs(target_spec), o1), o2)
    ELSE ChdirProbe(c, path, path, target_spec, tolerate_error, <<>>, FALSE, <<>>, o2)

\* chdir(None)
ChdirNone(c) == [c EXCEPT !.dir = NoPath]

------------------------------------------------------------------------------
(* rsync *)

\* os.system(cmd) on a POSIX system returns the wait status: the exit code
\* of the command in the high byte
OsSystem(exitcode) == exitcode * 256

\* f"{user}@{remote}:{path}" or the bare path
RemotePath(c, path) == [qualified |-> c.target = "remote", path |-> path]

BarePath(path) == [qualified |-> FALSE, path |-> path]

\* f"{cmd_start} {filters} {source} {dest}"
RsyncCommand(c, source, dest, delete) ==
    [delete |-> delete, rsh |-> c.target = "remote", source |-> source, dest |-> dest]

\* what an rsync call did: the command line it built, whether it started
\* rsync, and the exit code rsync ended with
RsyncInfo(cmd, started, rc) == [cmd |-> cmd, started |-> started, rc |-> rc]

\* an rsync call that raises on a nonzero exit whatever tol_nonzero_exit is
RsyncCall_Intolerant(c, source, dest, target_spec, printonly, tol_nonzero_exit, delete, rc) ==
    LET cmd == RsyncCommand(c, source, dest, delete)
    IN IF printonly
       THEN Done(c, EContainer(0), RsyncInfo(cmd, FALSE, 0))
       ELSE IF target_spec # "both" /\ c.target # target_spec
       THEN Done(c, EContainer(0), RsyncInfo(cmd, FALSE, 0))
       ELSE IF OsSystem(rc) # 0
       THEN Raised(c, "ValueError", "rsync failed", <<>>, RsyncInfo(cmd, TRUE, rc))
       ELSE Done(c, EContainer(OsSystem(rc)), RsyncInfo(cmd, TRUE, rc))

\* _rsync_call: rc is the exit code rsync ends with if it is started
RsyncCall(c, source, dest, target_spec, printonly, tol_nonzero_exit, delete, rc) ==
    LET cmd == RsyncCommand(c, source, dest, delete)
    IN IF printonly
       THEN Done(c, EContainer(0), RsyncInfo(cmd, FALSE, 0))
       ELSE IF target_spec # "both" /\ c.target # target_spec
       THEN Done(c, EContainer(0), RsyncInfo(cmd, FALSE, 0))
       ELSE IF ~tol_nonzero_exit /\ OsSystem(rc) # 0
       THEN Raised(c, "ValueError", "rsync failed", <<>>, RsyncInfo(cmd, TRUE, rc))
       ELSE Done(c, EContainer(OsSystem(rc)), RsyncInfo(cmd, TRUE, rc))

RsyncUpload(c, source, dest, target_spec, printonly, tol_nonzero_exit, delete, rc) ==
    RsyncCall(c, BarePath(source), RemotePath(c, dest), target_spec, printonly,
              tol_nonzero_exit, delete, rc)

\* a download that qualifies the destination, as an upload does
RsyncDownload_QualifiesDest(c, source, dest, target_spec, printonly, tol_nonzero_exit, delete, rc) ==
    RsyncCall(c, BarePath(source), RemotePath(c, dest), target_spec, printonly,
              tol_nonzero_exit, delete, rc)

RsyncDownload(c, source, dest, target_spec, printonly, tol_nonzero_exit, delete, rc) ==
    RsyncCall(c, RemotePath(c, source), BarePath(dest), target_spec, printonly,
              tol_nonzero_exit, delete, rc)

\* "~/tmp", where deploy_local_package uploads to
TmpDir == <<"~", "/", "tmp">>

\* what deploy_local_package did: upload = the rsync call's info, started =
\* the call went on to the pip commands, uninstall/install = the dispatch of
\* each pip command (NoInfo if it was not reached), install_path = the path
\* handed to pip install
DeployInfo(upload, started, uninstall, install, install_path) ==
    [upload |-> upload, started |-> started, uninstall |-> uninstall, install |-> install,
     install_path |-> install_path]

NotReached == DispatchInfo("none", FALSE, <<>>, NoResult)

\* a deployment that uploads to the directory it installs from
DeployLocalPackage_UploadsToTarget(c, local_path, target_path, package_name, rc, o1, o2) ==
    LET to == IF target_path = NoPath THEN TmpDir ELSE target_path
        up == RsyncUpload(c, local_path, to, "remote", FALSE, FALSE, FALSE, rc)
        install_path == JoinSlash(to, SplitTail(local_path))
        r1 == IF package_name # None
              THEN Run(c, RunArgs("pip uninstall", TRUE, "False", FALSE, "remote", TRUE), o1)
              ELSE Done(c, NoResult, NotReached)
        r2 == Run(r1.c, RunArgs("pip install", TRUE, "smart", FALSE, "remote", TRUE), o2)
    IN IF up.outcome = "raise"
       THEN Raised(up.c, up.exc, up.msg, up.msg_stderr,
                   DeployInfo(up.info, FALSE, NotReached, NotReached, NoPath))
       ELSE IF r1.outcome = "raise"
       THEN Raised(r1.c, r1.exc, r1.msg, r1.msg_stderr,
                   DeployInfo(up.info, TRUE, r1.info, NotReached, NoPath))
       ELSE IF r2.outcome = "raise"
       THEN Raised(r2.c, r2.exc, r2.msg, r2.msg_stderr,
                   DeployInfo(up.info, TRUE, r1.info, r2.info, install_path))
       ELSE Done(r2.c, NoResult, DeployInfo(up.info, TRUE, r1.info, r2.info, install_path))

\* deploy_local_package(local_path, target_path, package_name): rc is the exit
\* code of rsync, o1 and o2 what the backend does with the two pip commands
DeployLocalPackage(c, local_path, target_path, package_name, rc, o1, o2) ==
    LET up == RsyncUpload(c, local_path, TmpDir, "remote", FALSE, FALSE, FALSE, rc)
        to == IF target_path = NoPath THEN TmpDir ELSE target_path
        install_path == JoinSlash(to, SplitTail(local_path))
        r1 == IF package_name # None
              THEN Run(c, RunArgs("pip uninstall", TRUE, "False", FALSE, "remote", TRUE), o1)
              ELSE Done(c, NoResult, NotReached)
        r2 == Run(r1.c, RunArgs("pip install", TRUE, "smart", FALSE, "remote", TRUE), o2)
    IN IF up.outcome = "raise"
       THEN Raised(up.c, up.exc, up.msg, up.msg_stderr,
                   DeployInfo(up.info, FALSE, NotReached, NotReached, NoPath))
       ELSE IF r1.outcome = "raise"
       THEN Raised(r1.c, r1.exc, r1.msg, r1.msg_stderr,
                   DeployInfo(up.info, TRUE, r1.info, NotReached, NoPath))
       ELSE IF r2.outcome = "raise"
       THEN Raised(r2.c, r2.exc, r2.msg, r2.msg_stderr,
                   DeployInfo(up.info, TRUE, r1.info, r2.info, install_path))
       ELSE Done(r2.c, NoResult, DeployInfo(up.info, TRUE, r1.info, r2.info, install_path))

------------------------------------------------------------------------------
(* get_nearest_config.  A path is a sequence of components, the first being *)
(* "/" if the path is absolute; a directory is named by the components      *)
(* below the root, the root by <<>>.  A file name is a sequence of tokens,   *)
(* the last being its extension.                                             *)

(* remove_secrets_from_config.  A line is the sequence of its pieces of text; *)
(* a key or a value is a sequence of pieces too, so that one name can be     *)
(* part of another.                                                          *)

\* str.lower() of a piece
Lower(p) == IF p = "PASS" THEN "pass" ELSE IF p = "KEY" THEN "key" ELSE p

\* sub in line
Contains(line, sub) ==
    \E i \in 1..(Len(line) - Len(sub) + 1) : SubSeq(line, i, i + Len(sub) - 1) = sub

\* configparser: a line that is a section header, a comment, or the
\* continuation of the value before it, holds no key
IsKeyLine(line) == line[1] \notin {"[settings]", "#", ";", "  "}

\* the place of the delimiter in a key line
DelimiterAt(line) == CHOOSE i \in DOMAIN line : line[i] = " = "

\* the key of a key line
KeyOfLine(line) == SubSeq(line, 1, DelimiterAt(line) - 1)

\* config["settings"].keys(), in the order of the file
ConfigKeys(lines) ==
    [i \in 1..Len(SelectSeq(lines, IsKeyLine)) |-> KeyOfLine(SelectSeq(lines, IsKeyLine)[i])]

\* ("pass" in k.lower()) or ("key" in k.lower())
IsCritical(k) == \E i \in DOMAIN k : Lower(k[i]) \in {"pass", "key"}

\* critical_keys
CriticalKeys(lines) == SelectSeq(ConfigKeys(lines), IsCritical)

\* for ck in critical_keys: if ck in line: break -- the place of ck in
\* critical_keys, 0 if the loop ends without a break
FirstCritical(cks, line) ==
    IF \E j \in DOMAIN cks : Contains(line, cks[j])
    THEN CHOOSE j \in DOMAIN cks :
            /\ Contains(line, cks[j])
            /\ \A h \in 1..(j - 1) : ~Contains(line, cks[h])
    ELSE 0

\* secrets.token_urlsafe: text that stands in no file
Placeholder == "--example-secret--"

\* what becomes of a line: copied, dropped, or replaced by out
Copied(line) == [how |-> "copied", out |-> line]

Dropped == [how |-> "dropped", out |-> <<>>]

Replaced(ck) == [how |-> "replaced", out |-> ck \o <<" = ", Placeholder, NL>>]

\* the commented-out test: line[:len(ck)] == ck for the key found
LineFate_PrefixMatch(cks, line, j) ==
    IF j = 0 THEN Copied(line)
    ELSE IF ~StartsWith(line, cks[j]) THEN Copied(line)
    ELSE Replaced(cks[j])

\* a loop that drops every line in which a critical key is found
LineFate_DropsAll(cks, line, j) ==
    IF j = 0 THEN Copied(line) ELSE Dropped

\* the body of `for line in fulltext_lines`, j being the place of the
\* critical key found
LineFate(cks, line, j) ==
    IF j = 0 THEN Copied(line)
    ELSE IF line[1] = "#" THEN Dropped
    ELSE Replaced(cks[j])

Fates(lines) ==
    [i \in DOMAIN lines |->
        LineFate(CriticalKeys(lines), lines[i], FirstCritical(CriticalKeys(lines), lines[i]))]

NotDropped(fate) == fate.how # "dropped"

\* result_lines
ResultLines(fates) ==
    [i \in 1..Len(SelectSeq(fates, NotDropped)) |-> SelectSeq(fates, NotDropped)[i].out]

\* path.replace(old, new) for a path of pieces
ReplacePiece(path, old, new) == [i \in DOMAIN path |-> IF path[i] = old THEN new ELSE path[i]]

\* new_path
NewPath(path) ==
    IF \E i \in DOMAIN path : path[i] = "production"
    THEN ReplacePiece(path, "production", "example")
    ELSE ReplacePiece(path, ".ini", "-example.ini")

\* remove_secrets_from_config(path) with the file at path holding lines
RemoveSecretsFromConfig(path, lines) ==
    IF ~EndsWith(path, <<".ini">>)
    THEN [outcome |-> "raise", exc |-> "AssertionError", critical_keys |-> <<>>,
          fates |-> <<>>, result_lines |-> <<>>, new_path |-> NoPath]
    ELSE [outcome |-> "return", exc |-> "none", critical_keys |-> CriticalKeys(lines),
          fates |-> Fates(lines), result_lines |-> ResultLines(Fates(lines)),
          new_path |-> NewPath(path)]

------------------------------------------------------------------------------
(* parse_args.  argv is the sequence of the command line's words.            *)

\* choices=["local", "remote"]
TargetChoices == {"local", "remote"}

\* the words argparse takes for options
IsOption(w) == w \in {"-u", "--unsafe", "-i", "--initial", "-l", "--symlink", "-x"}

IsPositional(w) == ~IsOption(w)

\* action="store_true": the flag is true iff one of its option strings is given
Flag(argv, short, long) == \E i \in DOMAIN argv : argv[i] \in {short, long}

\* argparser.parse_args(argv): the namespace, or the usage error
Namespace(argv) ==
    [target |-> SelectSeq(argv, IsPositional)[1],
     unsafe |-> Flag(argv, "-u", "--unsafe"),
     initial |-> Flag(argv, "-i", "--initial"),
     symlink |-> Flag(argv, "-l", "--symlink")]

NoNamespace == [target |-> "None", unsafe |-> FALSE, initial |-> FALSE, symlink |-> FALSE]

UsageError(argv) ==
    \/ Len(SelectSeq(argv, IsPositional)) # 1
    \/ SelectSeq(argv, IsPositional)[1] \notin TargetChoices
    \/ \E i \in DOMAIN argv : argv[i] = "-x"

ParsedDone(ns) == [outcome |-> "return", exc |-> "none", text |-> "none", ns |-> ns]

ParsedRaised(exc, text) == [outcome |-> "raise", exc |-> exc, text |-> text, ns |-> NoNamespace]

\* a parse_args without the check of --symlink against the target
ParseArgs_Unchecked(argv) ==
    IF UsageError(argv)
    THEN ParsedRaised("SystemExit", "usage")
    ELSE ParsedDone(Namespace(argv))

\* parse_args(argv)
ParseArgs(argv) ==
    IF UsageError(argv)
    THEN ParsedRaised("SystemExit", "usage")
    ELSE IF Namespace(argv).target # "local" /\ Namespace(argv).symlink
    THEN ParsedRaised("ValueError", "incompatible options")
    ELSE ParsedDone(Namespace(argv))

------------------------------------------------------------------------------
(* render_json_template and merge_dicts.  A value is a number or a dict; a    *)
(* dict is the sequence of its items <<key, value>> in insertion order.      *)

Atom(n) == [isdict |-> FALSE, atom |-> n, items |-> <<>>]

Dict(items) == [isdict |-> TRUE, atom |-> 0, items |-> items]

\* the places of key in a dict
ItemPlaces(items, key) == {j \in 1..Len(items) : items[j][1] = key}

\* a[key] = value for a key that a has
SetItem(a, key, value) ==
    [j \in 1..Len(a) |-> IF a[j][1] = key THEN <<key, value>> ELSE a[j]]

\* a[key] for a key that a has
GetItem(a, key) == a[CHOOSE j \in ItemPlaces(a, key) : TRUE][2]

\* a merge that overwrites a[key] in every case
RECURSIVE MergeFrom_Shallow(_, _, _)
MergeFrom_Shallow(a, b, i) ==
    IF i > Len(b) THEN a
    ELSE IF ItemPlaces(a, b[i][1]) # {}
    THEN MergeFrom_Shallow(SetItem(a, b[i][1], b[i][2]), b, i + 1)
    ELSE MergeFrom_Shallow(Append(a, b[i]), b, i + 1)

\* for key in b: ..., from the i-th key of b on
RECURSIVE MergeFrom(_, _, _)
MergeFrom(a, b, i) ==
    IF i > Len(b) THEN a
    ELSE IF ItemPlaces(a, b[i][1]) # {}
    THEN IF GetItem(a, b[i][1]).isdict /\ b[i][2].isdict
         THEN MergeFrom(SetItem(a, b[i][1],
                                Dict(MergeFrom(GetItem(a, b[i][1]).items, b[i][2].items, 1))),
                        b, i + 1)
         ELSE MergeFrom(SetItem(a, b[i][1], b[i][2]), b, i + 1)
    ELSE MergeFrom(Append(a, b[i]), b, i + 1)

\* merge_dicts(a, b)
MergeDicts(a, b) == MergeFrom(a, b, 1)

\* the keys in the order json.dumps(sort_keys=True) writes them
JsonKeyOrder == <<"a", "b", "x", "y", "z">>

\* {{ data | tojson(indent=2) }}: the data the text denotes, every dict with
\* its keys sorted
RECURSIVE ToJson(_)
ToJson(v) ==
    IF ~v.isdict THEN v
    ELSE LET HasKey(k) == ItemPlaces(v.items, k) # {}
             keys == SelectSeq(JsonKeyOrder, HasKey)
         IN Dict([i \in 1..Len(keys) |-> <<keys[i], ToJson(GetItem(v.items, keys[i]))>>])

\* a data file: the syntax it is written in and the data it denotes
DataFile(syntax, data) == [syntax |-> syntax, data |-> data]

\* a choice of loader in which the extension goes before data_format
LoadFunc_ExtensionFirst(base_data_path, data_format) ==
    IF EndsWith(base_data_path, <<".json">>) \/ (data_format = "json")
    THEN "json"
    ELSE IF EndsWith(base_data_path, <<".yml">>) \/ (data_format = "yaml")
    THEN "yaml"
    ELSE "none"

\* load_func: json.load, yaml.safe_load, or none (ValueError)
LoadFunc(base_data_path, data_format) ==
    IF (data_format = "None" /\ EndsWith(base_data_path, <<".json">>)) \/ data_format = "json"
    THEN "json"
    ELSE IF (data_format = "None" /\ EndsWith(base_data_path, <<".yml">>))
            \/ data_format = "yaml"
    THEN "yaml"
    ELSE "none"

\* what render_json_template came to: the loader chosen, the file operations
\* done in their order, and the data of the text written and returned
RenderDone(loader, io, result) ==
    [outcome |-> "return", exc |-> "none", loader |-> loader, io |-> io, result |-> result]

RenderRaised(exc, loader, io) ==
    [outcome |-> "raise", exc |-> exc, loader |-> loader, io |-> io, result |-> Atom(0)]

\* from open(base_data_path) on
RenderJsonLoad(loader, new_data, file) ==
    IF loader = "json" /\ file.syntax # "json"
    THEN RenderRaised("JSONDecodeError", loader, <<"read">>)
    ELSE IF ~file.data.isdict
    THEN RenderRaised("AssertionError", loader, <<"read">>)
    ELSE RenderDone(loader, <<"read", "makedirs", "write">>,
                    ToJson(Dict(MergeDicts(file.data.items, new_data))))

\* render_json_template(base_data_path, new_data, target_path, data_format)
\* with file at base_data_path
RenderJsonTemplate(base_data_path, new_data, data_format, file) ==
    IF LoadFunc(base_data_path, data_format) = "none"
    THEN RenderRaised("ValueError", "none", <<>>)
    ELSE RenderJsonLoad(LoadFunc(base_data_path, data_format), new_data, file)

\* os.path.split(fname)
PathSplit(fname) ==
    [head |-> SubSeq(fname, 1, Len(fname) - 1), tail |-> fname[Len(fname)]]

(* render_template.  A path is the sequence of its directory parts followed  *)
(* by the filename; a filename is the sequence of its pieces, the marker     *)
(* being one piece.                                                          *)

\* special_str
SpecialStr == "template_"

\* fname.count(special_str)
CountSpecial(fname) == Len(SelectSeq(fname, LAMBDA t : t = SpecialStr))

\* fname.replace(special_str, "")
DropSpecial(fname) == SelectSeq(fname, LAMBDA t : t # SpecialStr)

\* a condition that accepts the marker anywhere in the filename
FnameAccepted_AnyPlace(fname) == CountSpecial(fname) = 1 /\ Len(fname) > 1

\* fname.startswith(special_str) and (fname.count(special_str) == 1)
\* and len(fname) > len(special_str)
FnameAccepted(fname) ==
    /\ fname # <<>>
    /\ fname[1] = SpecialStr
    /\ CountSpecial(fname) = 1
    /\ Len(fname) > 1

\* no text: nothing was rendered or written
NoText == [template |-> <<>>, warning |-> "none"]

\* the warning render_template puts into a context that has none
AutoWarning == "autogenerated"

\* what render_template came to: the file operations done in their order,
\* the path written to, the text rendered (the template it came from and
\* the warning it was rendered with), and the context's warning afterwards
TemplateDone(io, target_path, result, warning) ==
    [outcome |-> "return", exc |-> "none", io |-> io, target_path |-> target_path,
     result |-> result, context |-> warning]

TemplateRaised(exc, io, warning) ==
    [outcome |-> "raise", exc |-> exc, io |-> io, target_path |-> NoPath,
     result |-> NoText, context |-> warning]

\* a render_template that renders before it puts the warning into the context
TemplateRender_InjectsLate(fname, warning, target_path, exists) ==
    IF ~exists
    THEN TemplateRaised("TemplateNotFound", <<"load">>, warning)
    ELSE TemplateDone(<<"load", "makedirs", "write">>, target_path,
                      [template |-> fname, warning |-> warning],
                      IF warning = "None" THEN AutoWarning ELSE warning)

\* from jin_env.get_template(fname) on; exists tells whether the template
\* file is there, warning is context.get("warning")
TemplateRender(fname, warning, target_path, exists) ==
    IF ~exists
    THEN TemplateRaised("TemplateNotFound", <<"load">>, warning)
    ELSE TemplateDone(<<"load", "makedirs", "write">>, target_path,
                      [template |-> fname,
                       warning |-> IF warning = "None" THEN AutoWarning ELSE warning],
                      IF warning = "None" THEN AutoWarning ELSE warning)

\* render_template(tmpl_path, context, target_path)
RenderTemplate(tmpl_path, warning, target_path, exists) ==
    IF PathSplit(tmpl_path).head = <<>>
    THEN TemplateRaised("AssertionError", <<>>, warning)
    ELSE IF target_path # NoPath
    THEN TemplateRender(PathSplit(tmpl_path).tail, warning, target_path, exists)
    ELSE IF ~FnameAccepted(PathSplit(tmpl_path).tail)
    THEN TemplateRaised("AssertionError", <<>>, warning)
    ELSE TemplateRender(PathSplit(tmpl_path).tail, warning,
                        PathSplit(tmpl_path).head
                            \o <<DropSpecial(PathSplit(tmpl_path).tail)>>,
                        exists)

------------------------------------------------------------------------------
------------------------------------------------------------------------------
\* limit=None
NoLimit == -1

\* limit = 4, the default if fname is only a filename
DefaultLimit == 4

\* the directories that exist: one chain below the root
CfgDirs ==
    { <<>>,
      <<"p">>,
      <<"p", "q">>,
      <<"p", "q", "r">>,
      <<"p", "q", "r", "s">>,
      <<"p", "q", "r", "s", "u">> }

\* get_dir_of_this_file(upcount=2): the directory of the calling script
CallerDir == <<"p", "q", "r", "s", "u">>

\* a file system: for each directory whether it holds the config file, and
\* the entries of that file's [settings] section
NoFile == [exists |-> FALSE, entries |-> <<>>]

FileWith(entries) == [exists |-> TRUE, entries |-> entries]

\* os.path.abspath(p) with the process's working directory wd
AbsPath(p, wd) == IF p # <<>> /\ p[1] = "/" THEN Tail(p) ELSE wd \o p

\* os.path.isdir
IsDir(d) == d \in CfgDirs

\* os.path.isfile of the config file's name in directory d
IsFile(fs, d) == d \in CfgDirs /\ fs[d].exists

\* the directory `..` leads to; the root is its own parent
ParentDir(d) == IF d = <<>> THEN <<>> ELSE SubSeq(d, 1, Len(d) - 1)

\* a loop over range(limit): one directory fewer is tried
RECURSIVE FindUp_StopsEarly(_, _, _, _)
FindUp_StopsEarly(fs, d, i, limit) ==
    IF i >= limit THEN NoPath
    ELSE IF IsFile(fs, d) THEN d
    ELSE FindUp_StopsEarly(fs, ParentDir(d), i + 1, limit)

\* a loop without the break: the last match within the limit is kept
RECURSIVE FindUp_KeepsGoing(_, _, _, _)
FindUp_KeepsGoing(fs, d, i, limit) ==
    IF i > limit THEN NoPath
    ELSE IF FindUp_KeepsGoing(fs, ParentDir(d), i + 1, limit) # NoPath
    THEN FindUp_KeepsGoing(fs, ParentDir(d), i + 1, limit)
    ELSE IF IsFile(fs, d) THEN d
    ELSE NoPath

\* for i in range(limit + 1): ... path_list.insert(0, ".."): the directory
\* the file is found in first, given that i - 1 parents were tried; NoPath
\* if the loop ends without a break
RECURSIVE FindUp(_, _, _, _)
FindUp(fs, d, i, limit) ==
    IF i > limit THEN NoPath
    ELSE IF IsFile(fs, d) THEN d
    ELSE FindUp(fs, ParentDir(d), i + 1, limit)

\* the appendix of a development-mode key, as configparser holds it
DevMarker == "__devmode"

\* key.replace("__devmode", "")
NotDevMarker(t) == t # DevMarker

MainKey(key) == SelectSeq(key, NotDevMarker)

\* the places of key in the section
KeyPlaces(entries, key) == {j \in 1..Len(entries) : entries[j][1] = key}

\* a loop that sets relevant_dict[main_key] whether or not main_key exists
RECURSIVE DevmodeFrom_AddsBaseKey(_, _)
DevmodeFrom_AddsBaseKey(entries, i) ==
    IF i > Len(entries) THEN entries
    ELSE IF EndsWith(entries[i][1], <<DevMarker>>)
    THEN IF KeyPlaces(entries, MainKey(entries[i][1])) # {}
         THEN LET j == CHOOSE k \in KeyPlaces(entries, MainKey(entries[i][1])) : TRUE
              IN DevmodeFrom_AddsBaseKey(SubSeq(entries, 1, j - 1)
                                             \o <<<<MainKey(entries[i][1]), entries[i][2]>>>>
                                             \o SubSeq(entries, j + 1, Len(entries)),
                                         i + 1)
         ELSE DevmodeFrom_AddsBaseKey(
                  Append(entries, <<MainKey(entries[i][1]), entries[i][2]>>), i + 1)
    ELSE DevmodeFrom_AddsBaseKey(entries, i + 1)

\* for key, value in relevant_dict.items(): ... relevant_dict[main_key] = value,
\* from the i-th item on
RECURSIVE DevmodeFrom(_, _)
DevmodeFrom(entries, i) ==
    IF i > Len(entries) THEN entries
    ELSE IF EndsWith(entries[i][1], <<DevMarker>>)
            /\ KeyPlaces(entries, MainKey(entries[i][1])) # {}
    THEN LET j == CHOOSE k \in KeyPlaces(entries, MainKey(entries[i][1])) : TRUE
         IN DevmodeFrom(SubSeq(entries, 1, j - 1)
                            \o <<<<MainKey(entries[i][1]), entries[i][2]>>>>
                            \o SubSeq(entries, j + 1, Len(entries)),
                        i + 1)
    ELSE DevmodeFrom(entries, i + 1)

\* what get_nearest_config came to: the config object (the directory and
\* name of config.path, the entries config(key) reads), or the exception;
\* limit_named is the limit the message names, wd the process's working
\* directory afterwards
ConfigDone(d, name, entries, wd) ==
    [outcome |-> "return", exc |-> "none", limit_named |-> NoLimit, found_dir |-> d,
     name |-> name, entries |-> entries, wd |-> wd]

ConfigRaised(exc, limit_named, wd) ==
    [outcome |-> "raise", exc |-> exc, limit_named |-> limit_named, found_dir |-> NoPath,
     name |-> <<>>, entries |-> <<>>, wd |-> wd]

\* a get_nearest_config without os.chdir(old_dir) before the return
ConfigLoad_StaysThere(name, limit, devmode, fs, start_dir, old_dir, found) ==
    IF found = NoPath
    THEN ConfigRaised("FileNotFoundError", limit, start_dir)
    ELSE ConfigDone(found, name,
                    IF devmode THEN DevmodeFrom(fs[found].entries, 1) ELSE fs[found].entries,
                    start_dir)

\* the loop and what follows it, with the process in start_dir: found is the
\* directory the loop broke in
ConfigLoad(name, limit, devmode, fs, start_dir, old_dir, found) ==
    IF found = NoPath
    THEN ConfigRaised("FileNotFoundError", limit, start_dir)
    ELSE ConfigDone(found, name,
                    IF devmode THEN DevmodeFrom(fs[found].entries, 1) ELSE fs[found].entries,
                    old_dir)

\* from os.chdir(start_dir) on
ConfigSearch(name, limit, devmode, fs, start_dir, old_dir) ==
    IF ~IsDir(start_dir)
    THEN ConfigRaised("FileNotFoundError", NoLimit, old_dir)
    ELSE ConfigLoad(name, limit, devmode, fs, start_dir, old_dir,
                    FindUp(fs, start_dir, 0, limit))

\* a get_nearest_config that searches the parents of an explicit path too
GetNearestConfig_PathSearchesUp(fname, limit, devmode, start_dir, fs, wd) ==
    LET path0 == PathSplit(fname).head
        name == PathSplit(fname).tail
    IN IF ~EndsWith(name, <<".ini">>)
       THEN ConfigRaised("AssertionError", NoLimit, wd)
       ELSE IF path0 # <<>>
       THEN IF start_dir # NoPath \/ limit # NoLimit
            THEN ConfigRaised("AssertionError", NoLimit, wd)
            ELSE ConfigSearch(name, DefaultLimit, devmode, fs, AbsPath(path0, wd), wd)
       ELSE IF start_dir = NoPath
       THEN ConfigSearch(name, IF limit = NoLimit THEN DefaultLimit ELSE limit,
                         devmode, fs, CallerDir, wd)
       ELSE IF ~IsDir(AbsPath(start_dir, wd))
       THEN ConfigRaised("AssertionError", NoLimit, wd)
       ELSE ConfigSearch(name, IF limit = NoLimit THEN DefaultLimit ELSE limit,
                         devmode, fs, AbsPath(start_dir, wd), wd)

\* get_nearest_config(fname, limit, devmode, start_dir) in the file system fs
\* with the process's working directory wd
GetNearestConfig(fname, limit, devmode, start_dir, fs, wd) ==
    LET path0 == PathSplit(fname).head
        name == PathSplit(fname).tail
    IN IF ~EndsWith(name, <<".ini">>)
       THEN ConfigRaised("AssertionError", NoLimit, wd)
       ELSE IF path0 # <<>>
       THEN IF start_dir # NoPath \/ limit # NoLimit
            THEN ConfigRaised("AssertionError", NoLimit, wd)
            ELSE ConfigSearch(name, 0, devmode, fs, AbsPath(path0, wd), wd)
       ELSE IF start_dir = NoPath
       THEN ConfigSearch(name, IF limit = NoLimit THEN DefaultLimit ELSE limit,
                         devmode, fs, CallerDir, wd)
       ELSE IF ~IsDir(AbsPath(start_dir, wd))
       THEN ConfigRaised("AssertionError", NoLimit, wd)
       ELSE ConfigSearch(name, IF limit = NoLimit THEN DefaultLimit ELSE limit,
                         devmode, fs, AbsPath(start_dir, wd), wd)

------------------------------------------------------------------------------
(* The state: one StateConnection object and the last call made on it *)

VARIABLES
    target,         \* self.target
    dir,            \* self.dir, the tracked directory
    cwd,            \* self.cwd
    venv_path,      \* self.venv_path
    venv_target,    \* self.venv_target
    last_result,    \* self.last_result
    last_command,   \* self.last_command
    env_variables,  \* self.env_variables, in insertion order
    call,           \* the last call: its arguments, its outcome, what it did
    env_set,        \* history: name -> the value of the latest set_env of it
    venv_on,        \* history: the path of the latest activate_venv not yet
                    \* followed by deactivate_venv
    os_cwd,         \* os.getcwd(), the working directory of the process
    context,        \* the caller's context dict: its "warning" entry
    written         \* the text of the file render_template wrote last

vars == <<target, dir, cwd, venv_path, venv_target, last_result, last_command,
          env_variables, call, env_set, venv_on, os_cwd, context, written>>

Self ==
    [target |-> target, dir |-> dir, cwd |-> cwd, venv_path |-> venv_path,
     venv_target |-> venv_target, last_result |-> last_result,
     last_command |-> last_command, env_variables |-> env_variables]

Is(c) ==
    /\ target = c.target
    /\ dir = c.dir
    /\ cwd = c.cwd
    /\ venv_path = c.venv_path
    /\ venv_target = c.venv_target
    /\ last_result = c.last_result
    /\ last_command = c.last_command
    /\ env_variables = c.env_variables

Becomes(c) ==
    /\ target' = c.target
    /\ dir' = c.dir
    /\ cwd' = c.cwd
    /\ venv_path' = c.venv_path
    /\ venv_target' = c.venv_target
    /\ last_result' = c.last_result
    /\ last_command' = c.last_command
    /\ env_variables' = c.env_variables

\* the record of a call: r is what the operation returned (Done or Raised)
Call(op, args, r) ==
    [op |-> op, args |-> args, pre_dir |-> dir, outcome |-> r.outcome, res |-> r.res,
     exc |-> r.exc, msg |-> r.msg, msg_stderr |-> r.msg_stderr, info |-> r.info]

NoArgs == [none |-> TRUE]

NoInfo == [none |-> TRUE]

\* the inputs the calls are made with
Targets == {"local", "remote"}

TargetSpecs == {"local", "remote", "both"}

Warns == {"smart", "True", "False"}

Cmds == {"pwd", "ls"}

EnvNames == {"A", "B"}

EnvValues == {"1", "2"}

VenvPaths == {"v1", "v2"}

VenvTargets == {"remote", "both"}

ChdirPaths ==
    { <<"/", "h", "a", "/", "t">>,      \* /ha/t   exists
      <<"~", "/", "t">>,                \* ~/t     exists
      <<"~">>,                          \* ~
      <<"$", "H">>,                     \* $H
      <<"/", "x">>,                     \* /x      does not exist
      <<"/", "x", "/">>,                \* /x/     does not exist, ends in /
      <<"b">>,                          \* b       exists below /ha/t
      <<"a">>,                          \* a       exists nowhere; /ha ends in a
      <<"x">> }                         \* x       exists nowhere

RsyncExitCodes == {0, 23}

Init ==
    /\ \E t \in Targets :
          IF t = "remote"
          THEN \E o \in BackendChoices :
                  LET r == Run(NewConnection(t),
                               RunArgs("echo", TRUE, "smart", FALSE, "remote", TRUE), o)
                  IN /\ r.outcome = "return"
                     /\ r.res.exited = 0
                     /\ Is(r.c)
          ELSE Is(NewConnection(t))
    /\ call = [op |-> "init", args |-> NoArgs, pre_dir |-> NoPath, outcome |-> "return",
               res |-> NoResult, exc |-> "none", msg |-> "none", msg_stderr |-> <<>>,
               info |-> NoInfo]
    /\ env_set = [n \in EnvNames |-> None]
    /\ venv_on = None
    /\ os_cwd = <<>>
    /\ context = "None"
    /\ written = NoText

------------------------------------------------------------------------------
(* The calls.  Each takes the sets its arguments are drawn from. *)

RunCall(cmds, use_dirs, printonlys, use_venvs) ==
    \E cmd \in cmds, use_dir \in use_dirs, warn \in Warns, printonly \in printonlys,
       target_spec \in TargetSpecs, use_venv \in use_venvs, o \in BackendChoices :
        LET a == RunArgs(cmd, use_dir, warn, printonly, target_spec, use_venv)
            r == Run(Self, a, o)
        IN /\ Becomes(r.c)
           /\ call' = Call("run", a, r)
           /\ UNCHANGED <<env_set, venv_on, os_cwd, context, written>>

ChdirCall(paths, tolerate_errors) ==
    \E path \in paths, target_spec \in TargetSpecs, tolerate_error \in tolerate_errors :
      \E o1 \in (IF IsRelative(path) /\ dir # NoPath THEN BackendChoices ELSE {NoChoice}),
         o2 \in BackendChoices :
        LET r == Chdir(Self, path, target_spec, tolerate_error, o1, o2)
        IN /\ Becomes(r.c)
           /\ call' = Call("chdir", [path |-> path, target_spec |-> target_spec,
                                     tolerate_error |-> tolerate_error], r)
           /\ UNCHANGED <<env_set, venv_on, os_cwd, context, written>>

ChdirNoneCall ==
    /\ Becomes(ChdirNone(Self))
    /\ call' = Call("chdir_none", NoArgs, Done(Self, NoResult, NoInfo))
    /\ UNCHANGED <<env_set, venv_on, os_cwd, context, written>>

SetEnvCall(names, values) ==
    \E name \in names, value \in values :
        /\ Becomes(SetEnv(Self, name, value))
        /\ call' = Call("set_env", [name |-> name, value |-> value],
                        Done(Self, NoResult, NoInfo))
        /\ env_set' = [env_set EXCEPT ![name] = value]
        /\ UNCHANGED <<venv_on, os_cwd, context, written>>

ActivateVenvCall(paths, venv_targets) ==
    \E p \in paths, vt \in venv_targets, o \in BackendChoices :
        LET r == ActivateVenv(Self, p, vt, o)
        IN /\ Becomes(r.c)
           /\ call' = Call("activate_venv", [venv_path |-> p, venv_target |-> vt], r)
           /\ venv_on' = p
           /\ UNCHANGED <<env_set, os_cwd, context, written>>

DeactivateVenvCall ==
    /\ Becomes(DeactivateVenv(Self))
    /\ call' = Call("deactivate_venv", NoArgs, Done(Self, NoResult, NoInfo))
    /\ venv_on' = None
    /\ UNCHANGED <<env_set, os_cwd, context, written>>

\* the paths asked for; whether one exists is the backend's choice of the
\* exit code of test
ExistencePaths == {<<"/", "x">>, <<"/", "h">>}

CheckExistenceCall ==
    \E path \in ExistencePaths, target_spec \in TargetSpecs, o \in BackendChoices :
        /\ Becomes(CheckExistence(Self, path, target_spec, o).c)
        /\ call' = Call("check_existence", [path |-> path, target_spec |-> target_spec],
                        CheckExistence(Self, path, target_spec, o))
        /\ UNCHANGED <<env_set, venv_on, os_cwd, context, written>>

RsyncArgs(target_spec, printonly, tol_nonzero_exit, delete) ==
    [target_spec |-> target_spec, printonly |-> printonly,
     tol_nonzero_exit |-> tol_nonzero_exit, delete |-> delete]

RsyncUploadCall ==
    \E target_spec \in TargetSpecs, printonly \in BOOLEAN, tol \in BOOLEAN,
       delete \in BOOLEAN, rc \in RsyncExitCodes :
        LET r == RsyncUpload(Self, "src", "dst", target_spec, printonly, tol, delete, rc)
        IN /\ Becomes(r.c)
           /\ call' = Call("rsync_upload", RsyncArgs(target_spec, printonly, tol, delete), r)
           /\ UNCHANGED <<env_set, venv_on, os_cwd, context, written>>

RsyncDownloadCall ==
    \E target_spec \in TargetSpecs, printonly \in BOOLEAN, tol \in BOOLEAN,
       delete \in BOOLEAN, rc \in RsyncExitCodes :
        LET r == RsyncDownload(Self, "src", "dst", target_spec, printonly, tol, delete, rc)
        IN /\ Becomes(r.c)
           /\ call' = Call("rsync_download", RsyncArgs(target_spec, printonly, tol, delete), r)
           /\ UNCHANGED <<env_set, venv_on, os_cwd, context, written>>

\* the package directories, the target paths (NoPath: not given) and the
\* package names (None: not given) deploy_local_package is called with
DeployLocalPaths == {<<"/", "w", "/", "pkg">>, <<"pkg">>}

DeployTargetPaths == {NoPath, TmpDir, <<"~", "/", "apps">>}

PackageNames == {None, "pkg"}

DeployLocalPackageCall ==
    \E local_path \in DeployLocalPaths, target_path \in DeployTargetPaths,
       package_name \in PackageNames, rc \in RsyncExitCodes,
       o1 \in BackendChoices, o2 \in BackendChoices :
        LET r == DeployLocalPackage(Self, local_path, target_path, package_name, rc, o1, o2)
        IN /\ Becomes(r.c)
           /\ call' = Call("deploy_local_package",
                           [local_path |-> local_path, target_path |-> target_path,
                            package_name |-> package_name], r)
           /\ UNCHANGED <<env_set, venv_on, os_cwd, context, written>>

\* the calls below are functions of the module, not methods: they leave the
\* StateConnection object as it is
ObjectUnchanged ==
    UNCHANGED <<target, dir, cwd, venv_path, venv_target, last_result, last_command,
                env_variables, env_set, venv_on>>

\* the record of a call of a module function: r is what it came to
FunctionCall(op, args, r) ==
    [op |-> op, args |-> args, pre_dir |-> dir, outcome |-> r.outcome, res |-> NoResult,
     exc |-> r.exc, msg |-> "none", msg_stderr |-> <<>>, info |-> r]

\* the name of the config file
CfgFile == <<"c", ".ini">>

\* the entries of the file in directory d: they tell the files apart
DirTag(d) == IF d = <<>> THEN "root" ELSE d[Len(d)]

EntriesAt(d) == <<<<<<"where">>, DirTag(d)>>>>

\* the file system with the config file in the directories of S
FsWith(S) == [d \in CfgDirs |-> IF d \in S THEN FileWith(EntriesAt(d)) ELSE NoFile]

\* fname: bare, with an absolute directory that exists, with one that does
\* not, with a relative directory
SearchFnames ==
    { <<CfgFile>>,
      <<"/", "p", "q", CfgFile>>,
      <<"/", "z", CfgFile>>,
      <<"p", CfgFile>> }

SearchLimits == {NoLimit, 0, 1, 2}

\* start_dir: None, a directory that exists, one that does not
SearchStartDirs == {NoPath, <<"/", "p", "q", "r">>, <<"/", "z">>}

\* the directories holding the config file: none, one, or one and the
\* directory two levels above it
SearchFileDirs ==
    {S \in SUBSET CfgDirs : Cardinality(S) <= 1}
        \cup {{d, ParentDir(ParentDir(d))} : d \in {e \in CfgDirs : Len(e) >= 2}}

\* the keys of a [settings] section: a variable, its development-mode key,
\* a key with the appendix twice, and the development-mode key of a variable
\* the file does not have
SettingsKeys ==
    { <<"k">>, <<"k", DevMarker>>, <<"k", DevMarker, DevMarker>>, <<"m", DevMarker>> }

SettingsValues == {"A", "B"}

MaxSettings == 3

\* the sections: up to MaxSettings entries, no key twice
SettingsSections ==
    {e \in UNION {[1..n -> SettingsKeys \X SettingsValues] : n \in 0..MaxSettings} :
        \A i, j \in DOMAIN e : e[i][1] = e[j][1] => i = j}

\* the file system with one config file, in the caller's directory
FsWithSettings(entries) ==
    [d \in CfgDirs |-> IF d = CallerDir THEN FileWith(entries) ELSE NoFile]

\* a call of a module function that has been asked for and not yet made
Requested(op, args) ==
    [op |-> op, args |-> args, pre_dir |-> NoPath, outcome |-> "pending", res |-> NoResult,
     exc |-> "none", msg |-> "none", msg_stderr |-> <<>>, info |-> NoInfo]

\* the process before the call: no connection is involved
ModuleInit ==
    /\ Is(NewConnection("local"))
    /\ env_set = [n \in EnvNames |-> None]
    /\ venv_on = None
    /\ os_cwd = <<>>
    /\ written = NoText

\* the dicts with the keys of the sequence keys, in that order, and values
\* from values
DictsOver(keys, values) ==
    UNION {{[i \in 1..Len(SelectSeq(keys, LAMBDA k : k \in K)) |->
                <<SelectSeq(keys, LAMBDA k : k \in K)[i],
                  f[SelectSeq(keys, LAMBDA k : k \in K)[i]]>>] : f \in [K -> values]} :
           K \in SUBSET {keys[i] : i \in DOMAIN keys}}

\* the data of the base file: dicts of two levels, and a number
BaseDicts ==
    DictsOver(<<"a", "b">>, {Atom(1)} \cup {Dict(d) : d \in DictsOver(<<"x", "y">>, {Atom(1)})})

BasePayloads == {Dict(d) : d \in BaseDicts} \cup {Atom(1)}

\* new_data: dicts of two levels whose keys partly meet those of the base
NewDatas ==
    DictsOver(<<"b", "a">>, {Atom(2)} \cup {Dict(d) : d \in DictsOver(<<"y", "z">>, {Atom(2)})})

BaseDataPaths ==
    { <<"data", ".json">>, <<"data", ".yml">>, <<"data", ".yaml">>, <<"data", ".txt">> }

DataFormats == {"None", "json", "yaml", "yml"}

Syntaxes == {"json", "yaml"}

RenderJsonArgs ==
    [base_data_path : BaseDataPaths, new_data : NewDatas, data_format : DataFormats,
     file : {DataFile(x, d) : x \in Syntaxes, d \in BasePayloads}]

RenderJsonTemplateCall ==
    /\ call.op = "render_json_template"
    /\ call.outcome = "pending"
    /\ call' = FunctionCall("render_json_template", call.args,
                            RenderJsonTemplate(call.args.base_data_path, call.args.new_data,
                                               call.args.data_format, call.args.file))
    /\ ObjectUnchanged
    /\ UNCHANGED <<os_cwd, context, written>>

\* template filenames: the marker in front, absent, twice, alone, once but
\* not in front, in front and again at the end
TemplateFnames ==
    { <<SpecialStr, "1", ".txt">>,
      <<"1", ".txt">>,
      <<SpecialStr, SpecialStr, "1">>,
      <<SpecialStr>>,
      <<"my_", SpecialStr, "1">>,
      <<SpecialStr, "1", SpecialStr>>,
      <<"1", SpecialStr>> }

\* tmpl_path: in a directory, and the bare filename
TemplatePaths ==
    {<<"/", "t", f>> : f \in TemplateFnames} \cup {<<f>> : f \in TemplateFnames}

TemplateTargets == {NoPath, <<"/", "o", <<"out">>>>}

TemplateWarnings == {"None", "mine"}

\* the calls made one after the other with the same arguments and the same
\* context object
MaxRenders == 2

\* nth counts the calls made; warning is the context's entry the call found
RenderTemplateArgs ==
    [tmpl_path : TemplatePaths, warning : TemplateWarnings, target_path : TemplateTargets,
     exists : BOOLEAN, nth : {0}]

RenderTemplateCall ==
    /\ call.op = "render_template"
    /\ call.args.nth < MaxRenders
    /\ call' = FunctionCall("render_template",
                            [call.args EXCEPT !.nth = @ + 1, !.warning = context],
                            RenderTemplate(call.args.tmpl_path, context,
                                           call.args.target_path, call.args.exists))
    /\ context' = RenderTemplate(call.args.tmpl_path, context,
                                 call.args.target_path, call.args.exists).context
    /\ written' = IF RenderTemplate(call.args.tmpl_path, context,
                                    call.args.target_path, call.args.exists).outcome = "return"
                  THEN RenderTemplate(call.args.tmpl_path, context,
                                      call.args.target_path, call.args.exists).result
                  ELSE written
    /\ ObjectUnchanged
    /\ UNCHANGED os_cwd

\* the words of the command lines: the two targets, a word that is no
\* target, the flags in their short form, --symlink, and an option the
\* parser does not know
ArgvWords == {"local", "remote", "staging", "-u", "-i", "-l", "--symlink", "-x"}

MaxArgv == 3

Argvs == UNION {[1..n -> ArgvWords] : n \in 0..MaxArgv}

ParseArgsCall ==
    /\ call.op = "parse_args"
    /\ call.outcome = "pending"
    /\ call' = FunctionCall("parse_args", call.args, ParseArgs(call.args.argv))
    /\ ObjectUnchanged
    /\ UNCHANGED <<os_cwd, context, written>>

\* the lines the ini files are made of: keys with pass and key in their
\* names, one of them part of another; keys without; a value that mentions a
\* key; comments with # and with ; that mention a key; a comment that does
\* not; the continuation of a value
IniLines ==
    { <<"pass", " = ", "s1", NL>>,
      <<"pass", "word", " = ", "s2", NL>>,
      <<"API_", "KEY", " = ", "s3", NL>>,
      <<"user", " = ", "u1", NL>>,
      <<"note", " = ", "see ", "pass", "word", NL>>,
      <<"#", " ", "pass", "word", " was ", "s2", NL>>,
      <<";", " ", "pass", "word", " was ", "s2", NL>>,
      <<"#", " plain", NL>>,
      <<"  ", "s4", NL>> }

MaxIniLines == 3

\* the files: the section header and up to MaxIniLines lines, no line
\* twice, a continuation only after the line of a key
IniFiles ==
    {<<<<"[settings]", NL>>>> \o body :
        body \in {b \in UNION {[1..n -> IniLines] : n \in 0..MaxIniLines} :
                    /\ \A i, j \in DOMAIN b : b[i] = b[j] => i = j
                    /\ \A i \in DOMAIN b :
                          b[i][1] = "  " => i > 1 /\ IsKeyLine(b[i - 1])}}

IniPaths == {<<"config", ".ini">>, <<"production", ".ini">>, <<"config", ".txt">>}

RemoveSecretsCall ==
    /\ call.op = "remove_secrets_from_config"
    /\ call.outcome = "pending"
    /\ call' = FunctionCall("remove_secrets_from_config", call.args,
                            RemoveSecretsFromConfig(call.args.path, call.args.lines))
    /\ ObjectUnchanged
    /\ UNCHANGED <<os_cwd, context, written>>

ConfigArgs(fname, limit, devmode, start_dir, fs) ==
    [fname |-> fname, limit |-> limit, devmode |-> devmode, start_dir |-> start_dir,
     fs |-> fs, wd |-> os_cwd]

GetNearestConfigCall(fnames, limits, devmodes, start_dirs, fss) ==
    \E fname \in fnames, limit \in limits, devmode \in devmodes,
       start_dir \in start_dirs, fs \in fss :
        /\ call' = FunctionCall("get_nearest_config",
                                ConfigArgs(fname, limit, devmode, start_dir, fs),
                                GetNearestConfig(fname, limit, devmode, start_dir, fs, os_cwd))
        /\ os_cwd' = GetNearestConfig(fname, limit, devmode, start_dir, fs, os_cwd).wd
        /\ ObjectUnchanged
        /\ UNCHANGED <<context, written>>

------------------------------------------------------------------------------
(* Specifications.  Each lets the calls its claims are about take all their *)
(* arguments and keeps the rest of the object's state small.               *)

\* command dispatch: run with every argument, on objects with and without a
\* tracked directory, an export and an activated environment
Next ==
    \/ RunCall({"ls"}, BOOLEAN, BOOLEAN, BOOLEAN)
    \/ ChdirCall({<<"/", "h", "a", "/", "t">>, <<"/", "x">>}, {FALSE})
    \/ SetEnvCall({"A"}, {"1"})
    \/ ActivateVenvCall({"v1"}, {"remote"})

Spec == Init /\ [][Next]_vars

\* the tracked directory
NextChdir ==
    \/ ChdirCall(ChdirPaths, BOOLEAN)
    \/ ChdirNoneCall

SpecChdir == Init /\ [][NextChdir]_vars

\* environment exports
NextEnv ==
    \/ SetEnvCall(EnvNames, EnvValues)
    \/ RunCall({"ls"}, {TRUE}, BOOLEAN, {TRUE})
    \/ ChdirNoneCall
    \/ ActivateVenvCall({"v1"}, {"both"})
    \/ DeactivateVenvCall

SpecEnv == Init /\ [][NextEnv]_vars

\* virtual environments
NextVenv ==
    \/ ActivateVenvCall(VenvPaths, VenvTargets)
    \/ DeactivateVenvCall
    \/ SetEnvCall({"A"}, {"1"})
    \/ RunCall({"ls"}, {TRUE}, {FALSE}, BOOLEAN)

SpecVenv == Init /\ [][NextVenv]_vars

\* rsync
NextRsync ==
    \/ RsyncUploadCall
    \/ RsyncDownloadCall

SpecRsync == Init /\ [][NextRsync]_vars

\* the config search: every form of fname, limit and start_dir, the file in
\* up to two directories of the chain
InitConfig == Init /\ target = "local"

NextConfig ==
    \/ GetNearestConfigCall(SearchFnames, SearchLimits, {FALSE}, SearchStartDirs,
                            {FsWith(S) : S \in SearchFileDirs})

SpecConfig == InitConfig /\ [][NextConfig]_vars

\* development mode: the nearest file with every section
NextDevmode ==
    \/ GetNearestConfigCall({<<CfgFile>>}, {NoLimit}, BOOLEAN, {NoPath},
                            {FsWithSettings(e) : e \in SettingsSections})

SpecDevmode == InitConfig /\ [][NextDevmode]_vars

\* render_json_template: every base file, new_data, path and data_format
InitRenderJson ==
    /\ ModuleInit
    /\ context = "None"
    /\ call \in {Requested("render_json_template", a) : a \in RenderJsonArgs}

NextRenderJson ==
    \/ RenderJsonTemplateCall

SpecRenderJson == InitRenderJson /\ [][NextRenderJson]_vars

\* render_template: every filename, with and without target_path
InitRenderTemplate ==
    /\ ModuleInit
    /\ call \in {Requested("render_template", a) : a \in RenderTemplateArgs}
    /\ context = call.args.warning

NextRenderTemplate ==
    \/ RenderTemplateCall

SpecRenderTemplate == InitRenderTemplate /\ [][NextRenderTemplate]_vars

\* parse_args: every command line of up to MaxArgv words
InitParseArgs ==
    /\ ModuleInit
    /\ context = "None"
    /\ call \in {Requested("parse_args", [argv |-> v]) : v \in Argvs}

NextParseArgs ==
    \/ ParseArgsCall

SpecParseArgs == InitParseArgs /\ [][NextParseArgs]_vars

\* remove_secrets_from_config: every file of up to MaxIniLines lines
InitRemoveSecrets ==
    /\ ModuleInit
    /\ context = "None"
    /\ call \in {Requested("remove_secrets_from_config", [path |-> p, lines |-> f]) :
                    p \in IniPaths, f \in IniFiles}

NextRemoveSecrets ==
    \/ RemoveSecretsCall

SpecRemoveSecrets == InitRemoveSecrets /\ [][NextRemoveSecrets]_vars

\* check_existence on connections with exports and an activated environment
NextExistence ==
    \/ CheckExistenceCall
    \/ SetEnvCall({"A"}, EnvValues)
    \/ ActivateVenvCall({"v1"}, {"both"})
    \/ DeactivateVenvCall

SpecExistence == Init /\ [][NextExistence]_vars

\* deployments of a local package
NextDeploy ==
    \/ DeployLocalPackageCall

SpecDeploy == Init /\ [][NextDeploy]_vars

------------------------------------------------------------------------------
(* Claims *)

IsRun == call.op = "run"

IsChdir == call.op = "chdir"

IsRsync == call.op \in {"rsync_upload", "rsync_download"}

Returned == call.outcome = "return"

\* target_spec names the connection's target
Included(target_spec) == target_spec = target \/ target_spec = "both"

\* the result reported for an omitted command
ReportedOmitted ==
    /\ Returned
    /\ call.res.command_omitted
    /\ call.res.exited = 0
    /\ call.res.stdout = <<>>
    /\ call.res.stderr = <<>>

\* run reached the backend of its target iff target_spec includes the target,
\* and otherwise reported the command as omitted
GatedByTargetSpec ==
    /\ call.info.backend \in {"local", "remote"} <=> Included(call.args.target_spec)
    /\ call.info.backend \in {"local", "remote"} => call.info.backend = target
    /\ call.info.spawned => call.info.backend = target
    /\ ~Included(call.args.target_spec) => ~call.info.spawned /\ ReportedOmitted

\* C1 as stated: for every target and every target_spec, run invokes a backend
\* iff target_spec is the target or both; otherwise no backend is invoked and
\* run returns command_omitted = true, exit code 0, empty stdout and stderr.
C1_Original == IsRun => GatedByTargetSpec

\* C1, amended: the same for every run call with printonly false (the local
\* backend being the block that enters the tracked directory and starts the
\* subprocess); a printonly call reaches no backend whatever target_spec is
\* and returns exit code 0 without output and without the omitted flag.
C1_Dispatch ==
    IsRun =>
        IF call.args.printonly
        THEN /\ call.info.backend = "none"
             /\ ~call.info.spawned
             /\ Returned
             /\ call.res = EContainer(0)
        ELSE GatedByTargetSpec

C1_Witness ==
    /\ IsRun
    /\ ~call.args.printonly
    /\ ~Included(call.args.target_spec)
    /\ call.info.backend = "omit"
    /\ call.res.command_omitted

\* C2: with warn = "smart", a run whose command was executed and exited
\* nonzero raises ValueError with the command's stderr in the message and
\* returns nothing; with exit code zero it returns the result and raises
\* nothing.
C2_SmartRaises ==
    IsRun /\ call.args.warn = "smart" /\ call.info.spawned =>
        IF call.info.proc.exited # 0
        THEN /\ call.outcome = "raise"
             /\ call.exc = "ValueError"
             /\ call.msg = "failed with code"
             /\ call.msg_stderr = call.info.proc.stderr
        ELSE /\ Returned
             /\ call.res = call.info.proc

C2_Witness ==
    /\ IsRun
    /\ call.args.warn = "smart"
    /\ call.info.spawned
    /\ call.info.proc.exited # 0
    /\ call.exc = "ValueError"
    /\ call.msg_stderr # <<>>

\* C3 as stated: every executed run sets last_command and last_result to the
\* call's composite command and result; an omitted run leaves both unchanged.
C3_Original ==
    [][call'.op = "run" =>
         /\ call'.info.spawned =>
                /\ last_command' = call'.info.composite
                /\ last_result' = call'.info.proc
         /\ call'.info.backend = "omit" =>
                /\ last_command' = last_command
                /\ last_result' = last_result]_vars

\* C3, amended: every run call, omitted and printonly calls included, sets
\* last_command to its composite command; last_result becomes the result the
\* dispatch returns, which for an omitted call is the omitted result, and is
\* left unchanged only when the dispatch returns none (printonly, or the
\* backend raises).
C3_LastRecorded ==
    [][call'.op = "run" =>
         /\ last_command' = call'.info.composite
         /\ call'.info.proc # NoResult => last_result' = call'.info.proc
         /\ call'.info.proc = NoResult => last_result' = last_result]_vars

C3_Witness ==
    /\ IsRun
    /\ call.info.backend = "omit"
    /\ last_command = call.info.composite
    /\ last_result = OmittedResult

\* the final path segment of the path chdir was called with
Segment == SplitTail(call.args.path)

\* the probe's output does not end with the requested path's final segment
ProbeMismatch == Returned /\ call.info.probed /\ ~EndsWith(call.info.pwd_txt, Segment)

\* the tracked directory is the requested path, absolutised
TracksRequested ==
    IF IsRelative(call.args.path)
    THEN dir = JoinSlash(call.info.pwd0, call.args.path)
    ELSE dir = call.args.path

ComparisonFailed ==
    /\ ProbeMismatch
    /\ call.info.ran[Len(call.info.ran)] = target
    /\ call.info.probe_exited = 0

\* the call is one the mismatch check is said not to apply to
Exempted ==
    \/ call.args.tolerate_error
    \/ StartsWith(call.args.path, <<"~">>)
    \/ StartsWith(call.args.path, <<"$">>)

\* C5 as stated: on a probe mismatch chdir reverts the tracked directory and
\* reports failure, except when tolerate_error is set or the path begins with
\* ~ or $: then the tracked directory is not reverted and no failure reported.
C5_Original ==
    IsChdir /\ ComparisonFailed =>
        IF Exempted
        THEN TracksRequested /\ call.res.exited = 0
        ELSE dir = call.pre_dir /\ call.res.exited # 0

\* C5, amended: on a probe mismatch chdir reverts the tracked directory and
\* returns a result with a nonzero exit code in every case; tolerate_error and
\* a path beginning with ~ or $ only keep the "Could not change directory"
\* message of the comparison from being printed.
C5_AlwaysReverts ==
    IsChdir /\ ProbeMismatch =>
        /\ dir = call.pre_dir
        /\ call.res.exited # 0
        /\ ComparisonFailed => (call.info.printed <=> ~Exempted)

C5_Witness ==
    /\ IsChdir
    /\ ComparisonFailed
    /\ Exempted
    /\ call.pre_dir # NoPath
    /\ dir = call.pre_dir
    /\ call.res.exited = 1
    /\ ~call.info.printed

\* chdir with a relative path and no tracked directory raises ValueError
\* before any command and leaves the tracked directory None
RelativeFirstRejected ==
    IsRelative(call.args.path) /\ call.pre_dir = NoPath =>
        /\ call.outcome = "raise"
        /\ call.exc = "ValueError"
        /\ call.msg = "relative path first"
        /\ call.info.ran = <<>>
        /\ dir = NoPath

\* C6 as stated: a relative path with no tracked directory raises ValueError
\* without executing a command and leaves the tracked directory null; with a
\* tracked directory, the new tracked directory is the pwd output joined with
\* the relative path.
C6_Original ==
    IsChdir =>
        /\ RelativeFirstRejected
        /\ IsRelative(call.args.path) /\ call.pre_dir # NoPath =>
              dir = JoinSlash(call.info.pwd0, call.args.path)

\* C6, amended: ... with a tracked directory, if chdir returns a zero-exit
\* result the new tracked directory is the pwd output joined with the
\* relative path.
C6_RelativePath ==
    IsChdir =>
        /\ RelativeFirstRejected
        /\ IsRelative(call.args.path) /\ call.pre_dir # NoPath
             /\ Returned /\ call.res.exited = 0 =>
              dir = JoinSlash(call.info.pwd0, call.args.path)

C6_Witness ==
    /\ IsChdir
    /\ IsRelative(call.args.path)
    /\ call.pre_dir # NoPath
    /\ Returned
    /\ call.res.exited = 0
    /\ call.info.pwd0 # <<>>
    /\ call.info.pwd0 # call.pre_dir
    /\ dir = JoinSlash(call.info.pwd0, call.args.path)

\* the places of the composite command that export name n
ExportsOf(list, n) == {i \in 1..Len(list) : list[i].op = "export" /\ list[i].name = n}

\* the composite command exports exactly the names set so far, each once,
\* with the value set last, ahead of the user's command
ExportsWhatWasSet(list) ==
    /\ list[Len(list)].op = "cmd"
    /\ \A n \in EnvNames :
          IF env_set[n] = None
          THEN ExportsOf(list, n) = {}
          ELSE /\ Cardinality(ExportsOf(list, n)) = 1
               /\ \A i \in ExportsOf(list, n) : list[i].val = env_set[n] /\ i < Len(list)

\* C7: after any sequence of set_env calls, every run executed afterwards, on
\* a local or a remote target, issues a composite command that holds, before
\* the user's command, one export statement for each distinct name set so
\* far, with the value set last for it; no operation removes a name.
C7_ExportsAccumulate ==
    /\ \A n \in EnvNames :
          env_set[n] # None =>
              \E i \in 1..Len(env_variables) : env_variables[i] = <<n, env_set[n]>>
    /\ IsRun /\ call.info.spawned => ExportsWhatWasSet(call.info.composite)

C7_Witness ==
    /\ IsRun
    /\ call.info.spawned
    /\ env_set["A"] = "2"
    /\ env_set["B"] = "1"
    /\ Cardinality({i \in 1..Len(call.info.composite) :
                       call.info.composite[i].op = "export"}) = 2

\* the places of the composite command that source an activation script
SourcesOf(list) == {i \in 1..Len(list) : list[i].op = "source"}

\* C8: between activate_venv(p) and the next deactivate_venv, every run
\* executed on a remote-target connection with use_venv = True has `source p`
\* as the first statement of its composite command; a run with use_venv =
\* False, and every run after deactivate_venv until the next activate_venv,
\* holds no source statement.
C8_VenvPrefix ==
    IsRun =>
        /\ target = "remote" /\ call.info.spawned /\ call.args.use_venv /\ venv_on # None =>
              /\ call.info.composite[1] = SourceStmt(venv_on)
              /\ SourcesOf(call.info.composite) = {1}
        /\ ~call.args.use_venv \/ venv_on = None => SourcesOf(call.info.composite) = {}

C8_Witness ==
    /\ IsRun
    /\ target = "remote"
    /\ call.info.spawned
    /\ call.args.use_venv
    /\ venv_on = "v2"
    /\ Len(call.info.composite) > 2
    /\ call.info.composite[1] = SourceStmt("v2")

\* target_spec leaves the connection's target out
Excluded(target_spec) == target_spec # "both" /\ target_spec # target

\* C9: rsync_upload and rsync_download called with a target_spec that
\* excludes the connection's target never start rsync and return a result
\* reported as omitted: exit code 0, no output, the omitted flag set, as run
\* does.
C9_RsyncOmitted ==
    IsRsync /\ Excluded(call.args.target_spec) =>
        /\ ~call.info.started
        /\ ReportedOmitted

\* C10 as stated: when an rsync call is executed and rsync exits nonzero,
\* ValueError "rsync failed" is raised if tol_nonzero_exit is false, and with
\* tol_nonzero_exit true nothing is raised and the returned result carries
\* the nonzero exit code; a zero exit never raises.
C10_Original ==
    IsRsync /\ call.info.started =>
        IF call.info.rc = 0
        THEN Returned /\ call.res.exited = 0
        ELSE IF call.args.tol_nonzero_exit
        THEN Returned /\ call.res.exited = call.info.rc
        ELSE /\ call.outcome = "raise"
             /\ call.exc = "ValueError"
             /\ call.msg = "rsync failed"

\* C10, what the code does: as stated, but the exit field of the tolerated
\* result is the value os.system returned, the wait status, which is the
\* exit code times 256 and so nonzero.
C10_RsyncFailure ==
    IsRsync /\ call.info.started =>
        IF call.info.rc = 0
        THEN Returned /\ call.res.exited = 0
        ELSE IF call.args.tol_nonzero_exit
        THEN /\ Returned
             /\ call.res.exited # 0
             /\ call.res.exited = call.info.rc * 256
        ELSE /\ call.outcome = "raise"
             /\ call.exc = "ValueError"
             /\ call.msg = "rsync failed"

C10_Witness ==
    /\ IsRsync
    /\ call.info.started
    /\ call.info.rc # 0
    /\ call.args.tol_nonzero_exit
    /\ Returned
    /\ call.res.exited # 0

\* the path on the remote side of the rsync command line and the other one
RemoteSide == IF call.op = "rsync_upload" THEN call.info.cmd.dest ELSE call.info.cmd.source

LocalSide == IF call.op = "rsync_upload" THEN call.info.cmd.source ELSE call.info.cmd.dest

\* C11: in the rsync command line built by rsync_upload / rsync_download the
\* remote-side path (dest for upload, source for download) is prefixed with
\* user@host: iff the connection's target is remote; the other path is never
\* prefixed, and on a local target neither path is prefixed.
C11_RemoteSideQualified ==
    IsRsync =>
        /\ RemoteSide.qualified <=> target = "remote"
        /\ ~LocalSide.qualified
        /\ RemoteSide.path = (IF call.op = "rsync_upload" THEN "dst" ELSE "src")
        /\ LocalSide.path = (IF call.op = "rsync_upload" THEN "src" ELSE "dst")
        /\ target = "local" => ~call.info.cmd.source.qualified /\ ~call.info.cmd.dest.qualified

C11_Witness ==
    /\ call.op = "rsync_download"
    /\ target = "remote"
    /\ call.info.started
    /\ call.info.cmd.source = [qualified |-> TRUE, path |-> "src"]
    /\ call.info.cmd.dest = [qualified |-> FALSE, path |-> "dst"]

\* the session raised UnexpectedExit: a process ran and the dispatch came
\* back without a result
SessionRaisedExit == call.info.spawned /\ call.info.proc = NoResult

\* the command of the run was executed and failed
CommandFailed ==
    call.info.spawned /\ (SessionRaisedExit \/ call.info.proc.exited # 0)

\* C12: with warn = False a command that fails (nonzero exit, or the remote
\* backend raising UnexpectedExit) never makes run raise: run returns a
\* result whose exit code is nonzero.
C12_WarnFalseReturns ==
    IsRun /\ call.args.warn = "False" /\ CommandFailed =>
        /\ Returned
        /\ call.res.exited # 0

C12_Witness ==
    /\ IsRun
    /\ call.args.warn = "False"
    /\ target = "remote"
    /\ SessionRaisedExit
    /\ Returned
    /\ call.res = ExceptionResult("UnexpectedExit")

\* C13: for every value of warn, when the backend signals an authentication
\* failure during run (the remote session was reached and no process ran),
\* run does not raise: it returns a failed result with exit code 1, and
\* last_result is left as it was before the call.
C13_AuthFailureReturns ==
    [][call'.op = "run" /\ call'.info.backend = "remote" /\ ~call'.info.spawned =>
         /\ call'.outcome = "return"
         /\ call'.res.exited = 1
         /\ call'.res.exception = "PasswordRequiredException"
         /\ last_result' = last_result]_vars

C13_Witness ==
    /\ IsRun
    /\ call.args.warn = "smart"
    /\ call.info.backend = "remote"
    /\ ~call.info.spawned
    /\ Returned
    /\ call.res = ExceptionResult("PasswordRequiredException")
    /\ last_result.kind = "Result"

IsConfig == call.op = "get_nearest_config"

\* the directory k levels above d, as far as there are levels
RECURSIVE Ancestor(_, _)
Ancestor(d, k) == IF k = 0 \/ d = <<>> THEN d ELSE Ancestor(SubSeq(d, 1, Len(d) - 1), k - 1)

\* the call searched for a bare filename from a start directory that exists
BareSearch ==
    /\ IsConfig
    /\ Len(call.args.fname) = 1
    /\ call.args.start_dir # NoPath => AbsPath(call.args.start_dir, call.args.wd) \in CfgDirs

\* the directory the search started in and the limit it ran with
StartOf ==
    IF call.args.start_dir = NoPath
    THEN <<"p", "q", "r", "s", "u">>
    ELSE AbsPath(call.args.start_dir, call.args.wd)

LimitOf == IF call.args.limit = NoLimit THEN 4 ELSE call.args.limit

HasFile(d) == call.args.fs[d].exists

\* the file is exactly k directories above the start directory and at no
\* nearer level
ExactlyAbove(k) ==
    /\ HasFile(Ancestor(StartOf, k))
    /\ \A j \in 0..(k - 1) : ~HasFile(Ancestor(StartOf, j))

\* the call returned the parsed config of the file in directory d
LoadedFrom(d) ==
    /\ Returned
    /\ call.info.found_dir = d
    /\ call.info.name = call.args.fname[1]
    /\ call.info.entries = call.args.fs[d].entries

\* C14: for a config file exactly k directories above start_dir (and at no
\* nearer level) get_nearest_config(fname, start_dir, limit) returns the
\* parsed config iff k <= limit; for k = limit + 1 (and every larger k) it
\* raises FileNotFoundError.
C14_FoundWithinLimit ==
    BareSearch =>
        \A k \in 0..Len(StartOf) :
            ExactlyAbove(k) =>
                IF k <= LimitOf
                THEN LoadedFrom(Ancestor(StartOf, k))
                ELSE call.outcome = "raise" /\ call.exc = "FileNotFoundError"

C14_Witness ==
    /\ BareSearch
    /\ call.args.start_dir = <<"/", "p", "q", "r">>
    /\ call.args.limit = 2
    /\ ExactlyAbove(2)
    /\ LoadedFrom(<<"p">>)

\* C16: when fname has a directory part, get_nearest_config examines that
\* exact path only: no parent directory is searched, a missing file raises
\* FileNotFoundError, and start_dir or limit given together with such an
\* fname is rejected.
C16_ExplicitPath ==
    IsConfig /\ Len(call.args.fname) > 1 =>
        IF call.args.start_dir # NoPath \/ call.args.limit # NoLimit
        THEN call.outcome = "raise" /\ call.exc = "AssertionError"
        ELSE IF AbsPath(PathSplit(call.args.fname).head, call.args.wd) \in CfgDirs
                /\ HasFile(AbsPath(PathSplit(call.args.fname).head, call.args.wd))
        THEN /\ Returned
             /\ call.info.found_dir = AbsPath(PathSplit(call.args.fname).head, call.args.wd)
             /\ call.info.entries = call.args.fs[call.info.found_dir].entries
        ELSE call.outcome = "raise" /\ call.exc = "FileNotFoundError"

C16_Witness ==
    /\ IsConfig
    /\ call.args.fname = <<"/", "p", "q", CfgFile>>
    /\ call.args.start_dir = NoPath
    /\ call.args.limit = NoLimit
    /\ ~HasFile(<<"p", "q">>)
    /\ HasFile(<<"p">>)
    /\ call.outcome = "raise"
    /\ call.exc = "FileNotFoundError"

\* the parent steps within the limit at which the file is found
StepsWithFile == {k \in 0..LimitOf : HasFile(Ancestor(StartOf, k))}

\* C17: for a bare filename get_nearest_config searches start_dir and then
\* its parents in order of increasing distance, up to limit parents (4 if
\* no limit is given), and loads the first file found, the match with the
\* fewest parent steps even if there are matches higher up; if there is none
\* within the limit it raises FileNotFoundError whose message names the limit.
C17_NearestWins ==
    BareSearch =>
        IF StepsWithFile = {}
        THEN /\ call.outcome = "raise"
             /\ call.exc = "FileNotFoundError"
             /\ call.info.limit_named = LimitOf
        ELSE \E k \in StepsWithFile :
                /\ \A j \in StepsWithFile : k <= j
                /\ LoadedFrom(Ancestor(StartOf, k))

C17_Witness ==
    /\ BareSearch
    /\ call.args.start_dir = NoPath
    /\ call.args.limit = NoLimit
    /\ HasFile(<<"p", "q", "r">>)
    /\ HasFile(<<"p">>)
    /\ LoadedFrom(<<"p", "q", "r">>)

\* the section of the file the call loaded, and the section of the config
\* object it returned
FileSection == call.args.fs[call.info.found_dir].entries

ConfigSection == call.info.entries

KeysOf(section) == {section[i][1] : i \in DOMAIN section}

ValueOf(section, key) == section[CHOOSE i \in DOMAIN section : section[i][1] = key][2]

DevKey(key) == key \o <<"__devmode">>

\* C15 as stated: with devmode false every key yields the file's value;
\* with devmode true KEY yields the value of KEY__DEVMODE where the file has
\* both, every other key yields the file's value, and no key is created.
C15_Original ==
    IsConfig /\ Returned =>
        /\ KeysOf(ConfigSection) = KeysOf(FileSection)
        /\ \A key \in KeysOf(FileSection) :
              ValueOf(ConfigSection, key) =
                  IF call.args.devmode /\ DevKey(key) \in KeysOf(FileSection)
                  THEN ValueOf(FileSection, DevKey(key))
                  ELSE ValueOf(FileSection, key)

\* the key with every occurrence of the appendix removed
WithoutAppendix(key) == SelectSeq(key, LAMBDA t : t # "__devmode")

\* the places of the file's keys that end in the appendix and reduce to key
OverridesOf(key) ==
    {i \in DOMAIN FileSection :
        /\ FileSection[i][1][Len(FileSection[i][1])] = "__devmode"
        /\ WithoutAppendix(FileSection[i][1]) = key}

\* C15: with devmode false every key yields the file's value; with devmode
\* true a key yields the value of the last key of the file that ends in
\* __devmode and is that key once every __devmode in it is removed, and the
\* file's value if there is no such key; no key is created.
C15_DevmodeOverride ==
    IsConfig /\ Returned =>
        /\ KeysOf(ConfigSection) = KeysOf(FileSection)
        /\ \A key \in KeysOf(FileSection) :
              ValueOf(ConfigSection, key) =
                  IF call.args.devmode /\ OverridesOf(key) # {}
                  THEN FileSection[CHOOSE i \in OverridesOf(key) :
                                      \A j \in OverridesOf(key) : j <= i][2]
                  ELSE ValueOf(FileSection, key)

C15_Witness ==
    /\ IsConfig
    /\ Returned
    /\ call.args.devmode
    /\ FileSection = << <<<<"k">>, "A">>, <<<<"k", "__devmode", "__devmode">>, "B">> >>
    /\ ValueOf(ConfigSection, <<"k">>) = "B"

IsRenderJson == call.op = "render_json_template" /\ call.outcome # "pending"

\* two values are equal as Python compares them: dicts whatever the order of
\* their keys
RECURSIVE SameData(_, _)
SameData(v, w) ==
    IF v.isdict /\ w.isdict
    THEN /\ KeysOf(v.items) = KeysOf(w.items)
         /\ \A k \in KeysOf(v.items) : SameData(ValueOf(v.items, k), ValueOf(w.items, k))
    ELSE v = w

\* result is the merge of base and override as the law describes it
RECURSIVE MergeLaw(_, _, _)
MergeLaw(base, override, result) ==
    /\ Len(result) = Cardinality(KeysOf(result))
    /\ KeysOf(result) = KeysOf(base) \cup KeysOf(override)
    /\ \A k \in KeysOf(result) :
          IF k \in KeysOf(base) /\ k \in KeysOf(override)
          THEN IF ValueOf(base, k).isdict /\ ValueOf(override, k).isdict
               THEN /\ ValueOf(result, k).isdict
                    /\ MergeLaw(ValueOf(base, k).items, ValueOf(override, k).items,
                                ValueOf(result, k).items)
               ELSE SameData(ValueOf(result, k), ValueOf(override, k))
          ELSE IF k \in KeysOf(override)
          THEN SameData(ValueOf(result, k), ValueOf(override, k))
          ELSE SameData(ValueOf(result, k), ValueOf(base, k))

\* C18: the data render_json_template writes is the merge of the base data
\* and new_data: a key of both whose values are both mappings has the
\* recursive merge, any other key of new_data has new_data's value, every
\* other key has the base value; the keys are those of the base and of
\* new_data, so no base key is lost.
C18_MergeLaw ==
    IsRenderJson /\ Returned =>
        /\ call.info.result.isdict
        /\ MergeLaw(call.args.file.data.items, call.args.new_data, call.info.result.items)

C18_Witness ==
    /\ IsRenderJson
    /\ Returned
    /\ call.args.file.data =
           Dict(<< <<"a", Dict(<< <<"x", Atom(1)>>, <<"y", Atom(1)>> >>)>> >>)
    /\ call.args.new_data = << <<"a", Dict(<< <<"y", Atom(2)>>, <<"z", Atom(2)>> >>)>> >>
    /\ call.info.result =
           Dict(<< <<"a", Dict(<< <<"x", Atom(1)>>, <<"y", Atom(2)>>, <<"z", Atom(2)>> >>)>> >>)

Extension(path) == path[Len(path)]

\* the call chose loader, failing before any file operation if it is "none"
\* and reading the base file if not
ChoseLoader(loader) ==
    /\ call.info.loader = loader
    /\ IF loader = "none"
       THEN call.outcome = "raise" /\ call.info.io = <<>>
       ELSE call.info.io # <<>> /\ call.info.io[1] = "read"

\* C19 as stated: without data_format a path ending in .json is loaded as
\* JSON and one ending in .yml or .yaml as YAML; a data_format given goes
\* before the extension; every other combination fails before any file is
\* read or written.
C19_Original ==
    IsRenderJson =>
        ChoseLoader(IF call.args.data_format = "json" THEN "json"
                    ELSE IF call.args.data_format = "yaml" THEN "yaml"
                    ELSE IF call.args.data_format # "None" THEN "none"
                    ELSE IF Extension(call.args.base_data_path) = ".json" THEN "json"
                    ELSE IF Extension(call.args.base_data_path) \in {".yml", ".yaml"}
                    THEN "yaml"
                    ELSE "none")

\* C19: without data_format a path ending in .json is loaded as JSON and one
\* ending in .yml as YAML; data_format "json" or "yaml" goes before the
\* extension; every other combination, a path ending in .yaml without
\* data_format among them, fails before any file is read or written.
C19_LoaderChoice ==
    IsRenderJson =>
        ChoseLoader(IF call.args.data_format = "json" THEN "json"
                    ELSE IF call.args.data_format = "yaml" THEN "yaml"
                    ELSE IF call.args.data_format # "None" THEN "none"
                    ELSE IF Extension(call.args.base_data_path) = ".json" THEN "json"
                    ELSE IF Extension(call.args.base_data_path) = ".yml" THEN "yaml"
                    ELSE "none")

C19_Witness ==
    /\ IsRenderJson
    /\ call.args.data_format = "json"
    /\ Extension(call.args.base_data_path) = ".yml"
    /\ call.info.loader = "json"
    /\ Returned
    /\ call.info.io = <<"read", "makedirs", "write">>

\* render_template was called without target_path for a template in a
\* directory
IsDerivedTarget ==
    /\ call.op = "render_template"
    /\ call.outcome # "pending"
    /\ call.args.target_path = <<"None">>
    /\ Len(call.args.tmpl_path) > 1

TemplateName == call.args.tmpl_path[Len(call.args.tmpl_path)]

TemplateDir == SubSeq(call.args.tmpl_path, 1, Len(call.args.tmpl_path) - 1)

MarkerCount == Cardinality({i \in DOMAIN TemplateName : TemplateName[i] = "template_"})

NameWithoutMarker == SelectSeq(TemplateName, LAMBDA t : t # "template_")

\* the call got past the check of the filename, and what it wrote went to
\* the template's directory under the name without the marker
DerivedTargetUsed ==
    /\ call.exc # "AssertionError"
    /\ call.info.io # <<>>
    /\ Returned => call.info.target_path = TemplateDir \o <<NameWithoutMarker>>

FailedBeforeIO == call.outcome = "raise" /\ call.info.io = <<>>

\* C20 as stated: without target_path a filename that holds the marker
\* exactly once (and is more than the marker) is accepted and the output
\* goes to the template's directory under the name without the marker; a
\* filename without the marker, with more than one, or that would reduce to
\* nothing fails before any template is loaded or any file is written.
C20_Original ==
    IsDerivedTarget =>
        IF MarkerCount = 1 /\ NameWithoutMarker # <<>>
        THEN DerivedTargetUsed
        ELSE FailedBeforeIO

\* C20: without target_path a filename that begins with the marker, holds
\* it exactly once and is more than the marker is accepted and the output
\* goes to the template's directory under the name without the marker; any
\* other filename (the marker absent, not in front, more than once, or
\* alone) fails before any template is loaded or any file is written.
C20_MarkerPrefix ==
    IsDerivedTarget =>
        IF TemplateName[1] = "template_" /\ MarkerCount = 1 /\ NameWithoutMarker # <<>>
        THEN DerivedTargetUsed
        ELSE FailedBeforeIO

C20_Witness ==
    /\ IsDerivedTarget
    /\ call.args.tmpl_path = <<"/", "t", <<"template_", "1", ".txt">>>>
    /\ Returned
    /\ call.info.target_path = <<"/", "t", <<"1", ".txt">>>>
    /\ call.info.io = <<"load", "makedirs", "write">>

IsParseArgs == call.op = "parse_args" /\ call.outcome # "pending"

\* the command line holds only words parse_args knows: targets and flags
KnownWords == \A i \in DOMAIN call.args.argv : call.args.argv[i] # "-x"

\* the positional words of the command line
Positionals == SelectSeq(call.args.argv, LAMBDA w : w \in {"local", "remote", "staging"})

Given(short, long) == \E i \in DOMAIN call.args.argv : call.args.argv[i] \in {short, long}

OneTarget == Len(Positionals) = 1 /\ Positionals[1] \in {"local", "remote"}

RenderedAgain ==
    /\ call.op = "render_template"
    /\ call.outcome = "return"
    /\ call'.op = "render_template"
    /\ call'.args.nth = call.args.nth + 1

\* C22: render_template is idempotent: a second call with the same template
\* and the same context object, which now holds the warning the first call
\* put into it, returns the same text and writes the same content to the
\* same target path.
C22_Idempotent ==
    [][RenderedAgain =>
          /\ call'.outcome = "return"
          /\ call'.info.result = call.info.result
          /\ call'.info.target_path = call.info.target_path
          /\ written' = written
          /\ context' = context]_vars

C22_Witness ==
    /\ call.op = "render_template"
    /\ call.args.nth = 2
    /\ Returned
    /\ call.args.warning = "autogenerated"
    /\ call.info.result.warning = "autogenerated"
    /\ written = call.info.result

IsRemoveSecrets == call.op = "remove_secrets_from_config" /\ Returned

InLines == call.args.lines

OutLines == call.info.result_lines

\* the text holds a key = value line
HoldsKey(line) == line[1] \notin {"[settings]", "#", ";", "  "}

KeyIn(line) == SubSeq(line, 1, (CHOOSE h \in DOMAIN line : line[h] = " = ") - 1)

\* the i-th line of the input is the line of a key, and of a key whose name
\* contains pass or key
KeyLineAt(i) == HoldsKey(InLines[i])

CriticalAt(i) ==
    /\ KeyLineAt(i)
    /\ \E h \in DOMAIN KeyIn(InLines[i]) :
          KeyIn(InLines[i])[h] \in {"pass", "PASS", "key", "KEY"}

\* the pieces of the value of the key of line i: the rest of the line and
\* the continuation lines after it
ValuePieces(i) ==
    {InLines[i][h] : h \in {g \in DOMAIN InLines[i] :
                              g > Len(KeyIn(InLines[i])) + 1 /\ g < Len(InLines[i])}}
        \cup {InLines[j][2] : j \in {g \in DOMAIN InLines :
                                        /\ g > i
                                        /\ \A f \in (i + 1)..g : InLines[f][1] = "  "}}

\* the piece stands somewhere in the output
Appears(p) == \E j \in DOMAIN OutLines : \E h \in DOMAIN OutLines[j] : OutLines[j][h] = p

Within(sub, line) ==
    \E h \in 1..(Len(line) - Len(sub) + 1) : SubSeq(line, h, h + Len(sub) - 1) = sub

PlaceholderLine(k) == k \o <<" = ", "--example-secret--", "\n">>

\* C23 as stated: for every key whose name contains pass or key the output
\* carries a placeholder instead of the value, no piece of the value stands
\* anywhere in the output, and comment lines that mention the key are
\* dropped.
C23_Original ==
    IsRemoveSecrets =>
        \A i \in DOMAIN InLines :
            CriticalAt(i) =>
                /\ \E j \in DOMAIN OutLines : OutLines[j] = PlaceholderLine(KeyIn(InLines[i]))
                /\ \A p \in ValuePieces(i) : ~Appears(p)
                /\ \A c \in DOMAIN InLines :
                      InLines[c][1] \in {"#", ";"} /\ Within(KeyIn(InLines[i]), InLines[c])
                          => call.info.fates[c].how = "dropped"

\* C23: the line of every key whose name contains pass or key is replaced
\* by the placeholder line of a critical key that stands in it, so that no
\* piece of that line's value is left in its place; a line that begins with
\* # and mentions such a key is dropped.
C23_KeyLinesReplaced ==
    IsRemoveSecrets =>
        \A i \in DOMAIN InLines :
            CriticalAt(i) =>
                /\ call.info.fates[i].how = "replaced"
                /\ \E j \in DOMAIN call.info.critical_keys :
                      /\ Within(call.info.critical_keys[j], InLines[i])
                      /\ call.info.fates[i].out = PlaceholderLine(call.info.critical_keys[j])
                /\ \A c \in DOMAIN InLines :
                      InLines[c][1] = "#" /\ Within(KeyIn(InLines[i]), InLines[c])
                          => call.info.fates[c].how = "dropped"

C23_Witness ==
    /\ IsRemoveSecrets
    /\ InLines = << <<"[settings]", "\n">>, <<"pass", "word", " = ", "s2", "\n">>,
                    <<"  ", "s4", "\n">> >>
    /\ OutLines = << <<"[settings]", "\n">>, PlaceholderLine(<<"pass", "word">>),
                     <<"  ", "s4", "\n">> >>

\* the output lines that are lines of key k
OutLinesOf(k) == {j \in DOMAIN OutLines : HoldsKey(OutLines[j]) /\ KeyIn(OutLines[j]) = k}

\* C30 as stated: every key = value line of the input yields exactly one
\* output line with the same key, and the line of a key whose name contains
\* neither pass nor key is copied unchanged, whatever its value holds.
C30_Original ==
    IsRemoveSecrets =>
        \A i \in DOMAIN InLines :
            KeyLineAt(i) =>
                /\ Cardinality(OutLinesOf(KeyIn(InLines[i]))) = 1
                /\ ~CriticalAt(i) =>
                      /\ call.info.fates[i] = [how |-> "copied", out |-> InLines[i]]
                      /\ \E j \in DOMAIN OutLines : OutLines[j] = InLines[i]

\* the line holds the name of a critical key of the file
HoldsCritical(line) ==
    \E j \in DOMAIN call.info.critical_keys : Within(call.info.critical_keys[j], line)

\* C30: every line in which no critical key of the file stands is copied
\* unchanged; every other line yields one placeholder line, or none if it
\* begins with #; the output holds as many lines as were not dropped.
C30_PlainLinesCopied ==
    IsRemoveSecrets =>
        /\ \A i \in DOMAIN InLines :
              IF ~HoldsCritical(InLines[i])
              THEN call.info.fates[i] = [how |-> "copied", out |-> InLines[i]]
              ELSE IF InLines[i][1] = "#"
              THEN call.info.fates[i].how = "dropped"
              ELSE call.info.fates[i].how = "replaced"
        /\ Len(OutLines) =
              Cardinality({i \in DOMAIN InLines : call.info.fates[i].how # "dropped"})

C30_Witness ==
    /\ IsRemoveSecrets
    /\ InLines = << <<"[settings]", "\n">>, <<"pass", " = ", "s1", "\n">>,
                    <<"pass", "word", " = ", "s2", "\n">> >>
    /\ OutLines = << <<"[settings]", "\n">>, PlaceholderLine(<<"pass">>),
                     PlaceholderLine(<<"pass">>) >>

\* the search ended without the file: FileNotFoundError naming the limit
NotFoundWithinLimit ==
    /\ IsConfig
    /\ call.outcome = "raise"
    /\ call.exc = "FileNotFoundError"
    /\ call.info.limit_named # -1

\* C24 as stated: get_nearest_config leaves the working directory of the
\* process as it was before the call, when it returns a config object and
\* when it raises FileNotFoundError because no file was found within the
\* limit.
C24_Original ==
    (IsConfig /\ Returned) \/ NotFoundWithinLimit => os_cwd = call.args.wd

\* C24: when get_nearest_config returns a config object the working
\* directory of the process is as it was before the call; when it raises
\* FileNotFoundError because no file was found within the limit the process
\* is left in the directory the search started in.
C24_RestoredOnReturn ==
    /\ IsConfig /\ Returned => os_cwd = call.args.wd
    /\ NotFoundWithinLimit =>
          os_cwd = (IF Len(call.args.fname) > 1
                    THEN AbsPath(PathSplit(call.args.fname).head, call.args.wd)
                    ELSE StartOf)

C24_Witness ==
    /\ NotFoundWithinLimit
    /\ call.args.start_dir = <<"/", "p", "q", "r">>
    /\ call.args.wd = <<>>
    /\ os_cwd = <<"p", "q", "r">>

IsCheckExistence == call.op = "check_existence"

\* the test command was executed on the connection's own target and exited
\* with 0
TestSucceeded ==
    /\ call.info.spawned
    /\ call.info.backend = target
    /\ call.info.proc # NoResult
    /\ call.info.proc.exited = 0

\* C25 as stated: check_existence returns True iff the test command is
\* executed on the connection's own target and exits 0; on a local target
\* with target_spec local or both it returns False for a path that does not
\* exist.
C25_Original ==
    IsCheckExistence /\ Returned => (call.info.value <=> TestSucceeded)

\* C25: on a remote target check_existence returns True iff the test command
\* is executed there and exits 0; on a local target with target_spec local
\* or both no command is executed and it returns True for every path; a
\* target_spec that is neither both nor the connection's target is rejected.
C25_RemoteOnly ==
    IsCheckExistence =>
        IF call.args.target_spec # "both" /\ call.args.target_spec # target
        THEN call.outcome = "raise" /\ call.exc = "AssertionError"
        ELSE /\ Returned
             /\ IF target = "remote"
                THEN call.info.value <=> TestSucceeded
                ELSE call.info.value /\ call.info.backend = "omit" /\ ~call.info.spawned

C25_Witness ==
    /\ IsCheckExistence
    /\ target = "local"
    /\ call.args.target_spec = "local"
    /\ Returned
    /\ call.info.value
    /\ call.res.command_omitted


\* the chdir call did not succeed: it raised, or returned a nonzero result
ChdirFailed ==
    /\ IsChdir
    /\ \/ call.outcome = "raise"
       \/ Returned /\ call.res.exited # 0

\* the exception of the chdir call came out of the probing pwd, which runs
\* after the requested directory has been stored
ProbeRaised ==
    /\ IsChdir
    /\ call.outcome = "raise"
    /\ Len(call.info.ran) = (IF IsRelative(call.args.path) THEN 2 ELSE 1)

\* C26 as stated: a chdir call that does not succeed, whether it returns a
\* nonzero result or raises, leaves the tracked directory what it was before
\* the call.
C26_Original == ChdirFailed => dir = call.pre_dir

\* C26, what the code does: a chdir call that returns a nonzero result, or
\* raises before the probing pwd, leaves the tracked directory what it was
\* before the call; when the probing pwd raises, the tracked directory stays
\* the requested (absolutised) path.
C26_RevertsUnlessProbeRaises ==
    ChdirFailed => IF ProbeRaised THEN TracksRequested ELSE dir = call.pre_dir

\* a local-target chdir to a directory that does not exist raised
\* FileNotFoundError and the tracked directory is the missing directory
C26_Witness ==
    /\ ProbeRaised
    /\ target = "local"
    /\ call.exc = "FileNotFoundError"
    /\ call.args.path = <<"/", "x">>
    /\ dir = <<"/", "x">>
    /\ call.pre_dir # dir


\* the last call is a run that a local-target connection executed
LocalRunExecuted == IsRun /\ target = "local" /\ call.info.spawned

\* C27 as stated: while the stored venv scope is remote, no command executed
\* by a local-target connection holds a source statement, whatever target_spec
\* and use_venv are.
C27_Original ==
    LocalRunExecuted /\ venv_target = "remote" => SourcesOf(call.info.composite) = {}

\* C27, what the code does: a command executed by a local-target connection
\* holds the source statement exactly when use_venv is set, a venv is active,
\* and the venv scope is both or the run's target_spec is both; under scope
\* remote a run with target_spec both is activated locally.
C27_LocalActivation ==
    LocalRunExecuted =>
        /\ SourcesOf(call.info.composite) # {} <=>
              /\ call.args.use_venv
              /\ venv_on # None
              /\ venv_target = "both" \/ call.args.target_spec = "both"
        /\ SourcesOf(call.info.composite) # {} =>
              call.info.composite[1] = SourceStmt(venv_on)

\* under scope remote a local-target run with target_spec both executed a
\* command that starts with the source statement
C27_Witness ==
    /\ LocalRunExecuted
    /\ venv_target = "remote"
    /\ call.args.target_spec = "both"
    /\ call.args.use_venv
    /\ call.info.composite[1] = SourceStmt("v1")


\* the last call is a chdir whose target_spec leaves the connection's target
\* out, and it came back with a result
ChdirExcluded == IsChdir /\ Excluded(call.args.target_spec) /\ Returned

\* C28 as stated: chdir with a path and a target_spec that excludes the
\* connection's target executes no command, leaves the tracked directory
\* unchanged and returns a result with exit code 0, for every path.
C28_Original ==
    ChdirExcluded =>
        /\ ~call.info.spawned
        /\ dir = call.pre_dir
        /\ call.res.exited = 0

\* C28, what the code does: such a chdir executes no command and compares the
\* empty output of the omitted pwd with the path's final segment; for a path
\* with a final segment the tracked directory is unchanged and the result's
\* exit code is 1, for a path ending in / the tracked directory becomes the
\* requested path and the result is the omitted command's, with exit code 0.
C28_ExcludedCompares ==
    ChdirExcluded =>
        /\ ~call.info.spawned
        /\ call.info.pwd_txt = <<>>
        /\ IF Segment = <<>>
           THEN /\ TracksRequested
                /\ call.res.exited = 0
                /\ call.res.command_omitted
           ELSE /\ dir = call.pre_dir
                /\ call.res.exited = 1
                /\ call.res.old_res

\* a chdir to an existing directory with the target left out came back with
\* exit code 1
C28_Witness ==
    /\ ChdirExcluded
    /\ call.args.path = <<"/", "h", "a", "/", "t">>
    /\ ~call.info.spawned
    /\ dir = call.pre_dir
    /\ call.res.exited = 1

\* a chdir to a path ending in / with the target left out changed the
\* tracked directory
C28_SlashTracked ==
    /\ ChdirExcluded
    /\ call.args.path = <<"/", "x", "/">>
    /\ dir = <<"/", "x", "/">>
    /\ call.pre_dir # dir


IsDeploy == call.op = "deploy_local_package"

\* the directory the package was uploaded to
UploadDest == call.info.upload.cmd.dest.path

\* the directory part of the path handed to pip install
InstallParent ==
    SubSeq(call.info.install_path, 1, LastSlash(call.info.install_path,
                                                Len(call.info.install_path)) - 1)

\* rsync was started and ended with a nonzero exit code
UploadFailed == call.info.upload.started /\ call.info.upload.rc # 0

\* no pip command was handed to run
NoPipCommand ==
    /\ ~call.info.started
    /\ call.info.uninstall.backend = "none"
    /\ call.info.install.backend = "none"

\* C29 as stated: for every target_path, given or defaulted, the rsync
\* destination is the parent directory of the path handed to pip install,
\* and if the upload fails no uninstall or install command is run.
C29_Original ==
    IsDeploy =>
        /\ call.info.install.backend # "none" => UploadDest = InstallParent
        /\ UploadFailed => NoPipCommand

\* C29, what the code does: the rsync destination is ~/tmp whatever
\* target_path is, and pip install is handed target_path (or ~/tmp if it is
\* not given) joined with the package directory's name, so the two agree
\* exactly when target_path is not given or is ~/tmp; if the upload fails
\* ValueError is raised and no uninstall or install command is run.
C29_UploadsToTmp ==
    IsDeploy =>
        /\ UploadDest = TmpDir
        /\ call.info.install.backend # "none" =>
              /\ InstallParent = (IF call.args.target_path = NoPath
                                  THEN TmpDir ELSE call.args.target_path)
              /\ SplitTail(call.info.install_path) = SplitTail(call.args.local_path)
              /\ UploadDest = InstallParent <=> call.args.target_path \in {NoPath, TmpDir}
        /\ UploadFailed => NoPipCommand /\ call.outcome = "raise" /\ call.exc = "ValueError"

\* a package uploaded to ~/tmp on the remote target was installed from the
\* target_path given, another directory
C29_Witness ==
    /\ IsDeploy
    /\ target = "remote"
    /\ Returned
    /\ call.info.upload.started
    /\ call.info.install.spawned
    /\ call.args.target_path = <<"~", "/", "apps">>
    /\ UploadDest = TmpDir
    /\ InstallParent = <<"~", "/", "apps">>

==============================================================================
